---- MODULE Spec2Model ----
(***************************************************************************)
(* The Confluence import pipeline of AltWiki:                              *)
(*   apps/server/src/integrations/import/utils/confluence-parser.ts        *)
(*   apps/server/src/integrations/import/services/                         *)
(*       confluence-import.service.ts                                      *)
(* One import run: parse the archive, build the ImportPageNode map,        *)
(* compute the BFS levels, insert the pages level by level inside one      *)
(* transaction, insert the filtered backlinks, emit PAGE_CREATED.          *)
(***************************************************************************)
EXTENDS Integers, Sequences, FiniteSets, TLC

\* Number of Page objects in the archive (archive-local ids 1..MaxPages).
MaxPages == 3
\* Most backlink edges formatImportHtml reports over one run.
MaxLinks == 1

\* `null` of the source (parentPageId: string | null, homePageId, originalVersion).
NoId == 0

ConfIds == 1..MaxPages

\* v7(): a fresh id per page, distinct from every archive-local id.
NewId(confId) == MaxPages + confId

\* The id of a page that no node of this run carries.
ForeignId == 2 * MaxPages + 1

\* The shapes of Page objects the archives of this model contain: a current
\* page, a draft, and a historical version of a current page.
PageShapes ==
    { [contentStatus |-> "current", originalVersion |-> FALSE],
      [contentStatus |-> "draft", originalVersion |-> FALSE],
      [contentStatus |-> "current", originalVersion |-> TRUE] }

\* A Page object: its parent property and its shape.  The parser returns from
\* the callback before it reads the parent of an object it drops (lines
\* 137-149), so dropped objects are listed with no parent only.
PageObjects ==
    { o \in [parent : {NoId} \cup ConfIds, shape : PageShapes] :
        (o.shape.contentStatus # "current" \/ o.shape.originalVersion)
            => o.parent = NoId }

Archives == [ConfIds -> PageObjects]

VARIABLES
    archive,       \* entities.xml: Page object i has id i
    mode,          \* "none" | "full" | "space": which handler runs
    homePageId,    \* spaceInfo.homePageId (space import), NoId = null
    pc,            \* position of the handler
    pagesMap,      \* keys of pagesMap in Map iteration order
    nodes,         \* confId -> ImportPageNode (id, parentPageId)
    pageLevel,     \* the Map pageLevel after calculateLevels
    txOrder,       \* confIds in the order the transaction loop visits them
    idx,           \* next element of txOrder to process
    validPageIds,  \* Set validPageIds
    allBacklinks,  \* array allBacklinks
    trxPages,      \* page rows written by the open transaction
    trxBacklinks,  \* backlink rows written by the open transaction
    txState,       \* "none" | "open" | "committed" | "rolledback"
    dbPages,       \* page rows readers of the store see
    dbBacklinks,   \* backlink rows readers of the store see
    insertLog,     \* ids in the order trx.insertInto('pages') ran
    events,        \* PAGE_CREATED events emitted, in order
    failedStep,    \* which step of the transaction threw, "none" if none
    result,        \* "none" | "ok" | "error": what the caller receives
    failure,       \* message class of the Error the caller receives
    spaceInfo,     \* "none" | "absent" | "present": parse result's spaceInfo
    adminGrants,   \* admins for whom addUserToSpace succeeds
    dbSpaces,      \* space rows of the store
    dbSpaceMembers,\* space member rows of the store
    ord,           \* sibling ordering and order keys (SpecOrder)
    prs,           \* one call of parseConfluenceExport (SpecParser,
                   \* SpecAttachments)
    lnk,           \* one page's content through link resolution (SpecLinks)
                   \* or through the macro passes (SpecMacros)
    runs,          \* two import runs and the store they share (SpecTwice,
                   \* SpecTwoRuns, SpecSlug); one run's levels and order
                   \* keys (SpecBfs, SpecFiling)
    batch          \* the backlink filter and batch loop (SpecBatches)

vars == << archive, mode, homePageId, pc, pagesMap, nodes, pageLevel, txOrder,
           idx, validPageIds, allBacklinks, trxPages, trxBacklinks, txState,
           dbPages, dbBacklinks, insertLog, events, failedStep, result,
           failure, spaceInfo, adminGrants, dbSpaces, dbSpaceMembers,
           ord, prs, lnk, runs, batch >>

\* The variables of one import run other than those of its space.
pipeVars == << archive, mode, homePageId, pc, pagesMap, nodes, pageLevel,
               txOrder, idx, validPageIds, allBacklinks, trxPages,
               trxBacklinks, txState, dbPages, dbBacklinks, insertLog, events,
               failedStep, result, failure >>

\* The variables of the space the space import creates.
spaceVars == << spaceInfo, adminGrants, dbSpaces, dbSpaceMembers >>

\* The variables of the specifications of single functions.
sideVars == << ord, prs, lnk, runs, batch >>

SeqToSet(s) == { s[i] : i \in DOMAIN s }

----------------------------------------------------------------------------
\* confluence-parser.ts

\* The two filters of the third pass: a page is kept unless its contentStatus
\* is set and differs from 'current', or it has an originalVersion.
ParserKeepsNoVersionFilter(obj) ==
    ~(obj.contentStatus # "none" /\ obj.contentStatus # "current")

ParserKeeps(obj) ==
    /\ ~(obj.contentStatus # "none" /\ obj.contentStatus # "current")
    /\ ~obj.originalVersion

\* pages: the ids of the kept Page objects, in document order.
RECURSIVE ParsePagesFrom(_, _)
ParsePagesFrom(arch, i) ==
    IF i > MaxPages THEN << >>
    ELSE IF ParserKeeps(arch[i].shape)
         THEN << i >> \o ParsePagesFrom(arch, i + 1)
         ELSE ParsePagesFrom(arch, i + 1)

parseConfluenceExport(arch) == ParsePagesFrom(arch, 1)

----------------------------------------------------------------------------
\* confluence-import.service.ts: the ImportPageNode map

\* `confId === spaceInfo.homePageId`: the page the space import skips.
\* A null homePageId equals no confId.
IsHomePageNever(confId, home) == FALSE

IsHomePage(confId, home) == confId = home

\* The keys of pagesMap (and of confluenceIdToNewId), in Map order.
\* processConfluenceImport skips nothing: it is called with home = NoId.
PagesMapKeys(pages, home) ==
    LET Kept(c) == ~IsHomePage(c, home) IN SelectSeq(pages, Kept)

\* Full import, step 4: the parent is set only when the archive names one
\* and confluenceIdToNewId has it.
ResolveParentFullUnchecked(parent, mapped) ==
    IF parent # NoId THEN NewId(parent) ELSE NoId

ResolveParentFull(parent, mapped) ==
    IF parent # NoId /\ parent \in mapped THEN NewId(parent) ELSE NoId

\* Space import, step 5: a child of the home page becomes a root.
ResolveParentSpace(parent, mapped, home) ==
    IF parent # NoId
    THEN IF parent = home
         THEN NoId
         ELSE IF parent \in mapped THEN NewId(parent) ELSE NoId
    ELSE NoId

BuildNodesFull(arch, keys) ==
    [ c \in SeqToSet(keys) |->
        [ id |-> NewId(c),
          parentPageId |-> ResolveParentFull(arch[c].parent, SeqToSet(keys)) ] ]

BuildNodesSpace(arch, keys, home) ==
    [ c \in SeqToSet(keys) |->
        [ id |-> NewId(c),
          parentPageId |->
              ResolveParentSpace(arch[c].parent, SeqToSet(keys), home) ] ]

----------------------------------------------------------------------------
\* calculateLevels (the same closure in both handlers)

\* The root pages, queued at level 0 in Map order.
RootQueue(keys, nds) ==
    LET IsRoot(c) == nds[c].parentPageId = NoId
        roots == SelectSeq(keys, IsRoot)
    IN  [ i \in DOMAIN roots |-> [confId |-> roots[i], level |-> 0] ]

RootLevels(keys, nds) ==
    [ c \in { k \in SeqToSet(keys) : nds[k].parentPageId = NoId } |-> 0 ]

\* The inner loop over pagesMap.entries() for the dequeued page `cur`:
\* every page whose parentPageId is cur's id and that has no level yet gets
\* level + 1 and is queued.  st = [queue, pageLevel].
RECURSIVE ScanChildren(_, _, _, _, _, _)
ScanChildren(i, keys, nds, cur, level, st) ==
    IF i > Len(keys) THEN st
    ELSE LET child == keys[i] IN
         IF /\ nds[child].parentPageId = nds[cur].id
            /\ child \notin DOMAIN st.pageLevel
         THEN ScanChildren(i + 1, keys, nds, cur, level,
                [ queue |-> Append(st.queue,
                                   [confId |-> child, level |-> level + 1]),
                  pageLevel |->
                      [ c \in DOMAIN st.pageLevel \cup {child} |->
                          IF c = child THEN level + 1 ELSE st.pageLevel[c] ] ])
         ELSE ScanChildren(i + 1, keys, nds, cur, level, st)

\* while (queue.length > 0) { queue.shift() ... }
RECURSIVE BfsLoop(_, _, _)
BfsLoop(keys, nds, st) ==
    IF st.queue = << >> THEN st.pageLevel
    ELSE LET head == Head(st.queue) IN
         BfsLoop(keys, nds,
                 ScanChildren(1, keys, nds, head.confId, head.level,
                              [ queue |-> Tail(st.queue),
                                pageLevel |-> st.pageLevel ]))

\* The Map pageLevel when the BFS is over: its domain is the reached pages.
CalcPageLevel(keys, nds) ==
    BfsLoop(keys, nds, [ queue |-> RootQueue(keys, nds),
                         pageLevel |-> RootLevels(keys, nds) ])

\* `pageLevel.get(confId) || 0`: the level a page is filed under.
FiledLevel(confId, pl) ==
    IF confId \in DOMAIN pl THEN pl[confId] ELSE 0

\* pagesByLevel.get(level): the pages filed under `level`, in Map order.
PagesByLevel(keys, pl, level) ==
    LET AtLevel(c) == FiledLevel(c, pl) = level IN SelectSeq(keys, AtLevel)

\* Array.from(pagesByLevel.keys()): the levels in the order the grouping
\* loop first met them.
RECURSIVE LevelKeysFrom(_, _, _, _)
LevelKeysFrom(i, keys, pl, acc) ==
    IF i > Len(keys) THEN acc
    ELSE LET l == FiledLevel(keys[i], pl) IN
         IF l \in SeqToSet(acc)
         THEN LevelKeysFrom(i + 1, keys, pl, acc)
         ELSE LevelKeysFrom(i + 1, keys, pl, Append(acc, l))

LevelKeys(keys, pl) == LevelKeysFrom(1, keys, pl, << >>)

\* .sort((a, b) => a - b)
RECURSIVE SortAscending(_)
SortAscending(S) ==
    IF S = {} THEN << >>
    ELSE LET m == CHOOSE x \in S : \A y \in S : x <= y
         IN  << m >> \o SortAscending(S \ {m})

SortedLevelsUnsorted(levelKeys) == levelKeys

SortedLevels(levelKeys) == SortAscending(SeqToSet(levelKeys))

\* The pages in the order the two nested loops of the transaction visit them.
RECURSIVE VisitOrder(_, _, _)
VisitOrder(levels, keys, pl) ==
    IF levels = << >> THEN << >>
    ELSE PagesByLevel(keys, pl, Head(levels))
             \o VisitOrder(Tail(levels), keys, pl)

TxOrder(keys, pl) == VisitOrder(SortedLevels(LevelKeys(keys, pl)), keys, pl)

----------------------------------------------------------------------------
\* The transaction body

\* formatImportHtml: the backlinks found in one page's content.  Every edge
\* has the page itself as source; its target is a page of this run or a page
\* this run did not create.
BacklinkChoices(source, nds) ==
    { << >> } \cup
    { << [sourcePageId |-> source, targetPageId |-> t] >> :
        t \in { nds[c].id : c \in DOMAIN nds } \cup {ForeignId} }

\* allBacklinks.filter(...): both ends must be in validPageIds.
FilterBacklinksSourceOnly(links, valid) ==
    LET Keep(e) == e.sourcePageId \in valid IN SelectSeq(links, Keep)

FilterBacklinks(links, valid) ==
    LET Keep(e) == e.sourcePageId \in valid /\ e.targetPageId \in valid
    IN  SelectSeq(links, Keep)

BACKLINK_BATCH_SIZE == 100

Min(a, b) == IF a <= b THEN a ELSE b

\* The chunks the batch loop passes to insertBacklink, i counting from 0.
RECURSIVE BacklinkBatchesFrom(_, _)
BacklinkBatchesFrom(filtered, i) ==
    IF i >= Len(filtered) THEN << >>
    ELSE << SubSeq(filtered, i + 1,
                   Min(i + BACKLINK_BATCH_SIZE, Len(filtered))) >>
             \o BacklinkBatchesFrom(filtered, i + BACKLINK_BATCH_SIZE)

BacklinkBatches(filtered) == BacklinkBatchesFrom(filtered, 0)

RECURSIVE Flatten(_)
Flatten(chunks) ==
    IF chunks = << >> THEN << >> ELSE Head(chunks) \o Flatten(Tail(chunks))

\* catch (error) { ...; throw new Error(...) }: what the caller receives
\* when executeTx rejects.
CatchSwallows == "ok"

CatchRethrows == "error"

\* executeTx rejecting: the rows the transaction wrote are discarded and the
\* handler's catch block runs.
Rollback(step) ==
    /\ trxPages' = << >>
    /\ trxBacklinks' = << >>
    /\ txState' = "rolledback"
    /\ failedStep' = step
    /\ result' = CatchRethrows
    /\ failure' = "transaction-failure"
    /\ pc' = "done"
    /\ UNCHANGED << dbPages, dbBacklinks >>

----------------------------------------------------------------------------
\* spaceInfo of the parse result: null, or the Space object with its homePage.
SpaceInfos ==
    { [present |-> FALSE, homePageId |-> NoId] } \cup
    { [present |-> TRUE, homePageId |-> h] : h \in {NoId} \cup ConfIds }

\* opts.user, and the other users of the workspace whose role is owner or
\* admin (addWorkspaceOwnersToSpace's query).
Creator == "creator"

WorkspaceAdmins == { "admin" }

\* The space row createSpace inserts.
NewSpace == "space"

SpaceMember(userId) == [userId |-> userId, spaceId |-> NewSpace]

CreateSpaceSkipped(spaces) == spaces

\* this.spaceService.createSpace(user, workspaceId, {...}): the space row.
CreateSpace(spaces) == spaces \cup { NewSpace }

\* createSpace makes its creator a member; addWorkspaceOwnersToSpace adds
\* each admin, swallowing the error of an addUserToSpace call that throws.
AddWorkspaceOwnersToSpace(members, grants) ==
    members \cup { SpaceMember(Creator) }
            \cup { SpaceMember(a) : a \in WorkspaceAdmins \cap grants }

OrdIdle == [pc |-> "idle"]

PrsIdle == [pc |-> "idle"]

LnkIdle == [pc |-> "idle"]

RunsIdle == [pc |-> "idle"]

BatchIdle == [pc |-> "idle"]

\* The specifications of one function leave the pipeline in PipelineIdle,
\* the pipeline leaves their variables in SideIdle.
SideIdle ==
    /\ ord = OrdIdle
    /\ prs = PrsIdle
    /\ lnk = LnkIdle
    /\ runs = RunsIdle
    /\ batch = BatchIdle

InitPipeline ==
    /\ mode = "none"
    /\ homePageId = NoId
    /\ pc = "start"
    /\ pagesMap = << >>
    /\ nodes = << >>
    /\ pageLevel = << >>
    /\ txOrder = << >>
    /\ idx = 1
    /\ validPageIds = {}
    /\ allBacklinks = << >>
    /\ trxPages = << >>
    /\ trxBacklinks = << >>
    /\ txState = "none"
    /\ dbPages = {}
    /\ dbBacklinks = {}
    /\ insertLog = << >>
    /\ events = << >>
    /\ failedStep = "none"
    /\ result = "none"
    /\ failure = "none"
    /\ spaceInfo = "none"
    /\ dbSpaces = {}
    /\ dbSpaceMembers = {}

Init ==
    /\ archive \in Archives
    /\ adminGrants = WorkspaceAdmins
    /\ InitPipeline
    /\ SideIdle

\* processConfluenceImport up to the opening of the transaction.
ProcessConfluenceImport ==
    /\ pc = "start"
    /\ mode' = "full"
    /\ LET pages == parseConfluenceExport(archive)
           keys == PagesMapKeys(pages, NoId)
           nds == BuildNodesFull(archive, keys)
           pl == CalcPageLevel(keys, nds)
       IN  IF Len(pages) = 0
           THEN /\ pc' = "done"
                /\ result' = "ok"
                /\ UNCHANGED << pagesMap, nodes, pageLevel, txOrder, txState >>
           ELSE /\ pagesMap' = keys
                /\ nodes' = nds
                /\ pageLevel' = pl
                /\ txOrder' = TxOrder(keys, pl)
                /\ txState' = "open"
                /\ pc' = "tx"
                /\ UNCHANGED result
    /\ UNCHANGED << archive, homePageId, idx, validPageIds, allBacklinks,
                    trxPages, trxBacklinks, dbPages, dbBacklinks, insertLog,
                    events, failedStep >>
    /\ UNCHANGED << failure, spaceVars, sideVars >>

\* processConfluenceSpaceImport up to the end of addWorkspaceOwnersToSpace:
\* the two checks of the parse result, then the space and its members.
ProcessConfluenceSpaceImport ==
    /\ pc = "start"
    /\ mode' = "space"
    /\ \E info \in SpaceInfos :
         LET pages == parseConfluenceExport(archive)
         IN  /\ spaceInfo' = IF info.present THEN "present" ELSE "absent"
             /\ homePageId' = info.homePageId
             /\ IF ~info.present
                THEN /\ pc' = "done"
                     /\ result' = "error"
                     /\ failure' = "no-space-info-found"
                     /\ UNCHANGED << dbSpaces, dbSpaceMembers >>
                ELSE IF Len(pages) = 0
                THEN /\ pc' = "done"
                     /\ result' = "error"
                     /\ failure' = "no-pages-found"
                     /\ UNCHANGED << dbSpaces, dbSpaceMembers >>
                ELSE /\ dbSpaces' = CreateSpace(dbSpaces)
                     /\ dbSpaceMembers' =
                            AddWorkspaceOwnersToSpace(dbSpaceMembers,
                                                      adminGrants)
                     /\ pc' = "space"
                     /\ UNCHANGED << result, failure >>
    /\ UNCHANGED << archive, pagesMap, nodes, pageLevel, txOrder, txState,
                    idx, validPageIds, allBacklinks, trxPages, trxBacklinks,
                    dbPages, dbBacklinks, insertLog, events, failedStep >>
    /\ UNCHANGED << adminGrants, sideVars >>

\* processConfluenceSpaceImport from the node map to the opening of the
\* transaction.
OpenSpaceTransaction ==
    /\ pc = "space"
    /\ LET pages == parseConfluenceExport(archive)
           keys == PagesMapKeys(pages, homePageId)
           nds == BuildNodesSpace(archive, keys, homePageId)
           pl == CalcPageLevel(keys, nds)
       IN  /\ pagesMap' = keys
           /\ nodes' = nds
           /\ pageLevel' = pl
           /\ txOrder' = TxOrder(keys, pl)
           /\ txState' = "open"
           /\ pc' = "tx"
    /\ UNCHANGED << archive, mode, homePageId, idx, validPageIds,
                    allBacklinks, trxPages, trxBacklinks, dbPages,
                    dbBacklinks, insertLog, events, failedStep, result >>
    /\ UNCHANGED << failure, spaceVars, sideVars >>

\* One iteration of the inner loop: the page's content is produced and its
\* row inserted.
InsertPage ==
    /\ pc = "tx"
    /\ idx <= Len(txOrder)
    /\ LET page == nodes[txOrder[idx]] IN
       \E backlinks \in BacklinkChoices(page.id, nodes) :
         /\ Len(allBacklinks) + Len(backlinks) <= MaxLinks
         /\ trxPages' = Append(trxPages, [ id |-> page.id,
                                           parentPageId |-> page.parentPageId ])
         /\ insertLog' = Append(insertLog, page.id)
         /\ validPageIds' = validPageIds \cup {page.id}
         /\ allBacklinks' = allBacklinks \o backlinks
    /\ idx' = idx + 1
    /\ UNCHANGED << archive, mode, homePageId, pc, pagesMap, nodes, pageLevel,
                    txOrder, trxBacklinks, txState, dbPages, dbBacklinks,
                    events, failedStep, result >>
    /\ UNCHANGED << failure, spaceVars, sideVars >>

\* Producing a page's content, or inserting its row, throws.
PageStepFails ==
    /\ pc = "tx"
    /\ idx <= Len(txOrder)
    /\ Rollback("page")
    /\ UNCHANGED << archive, mode, homePageId, pagesMap, nodes, pageLevel,
                    txOrder, idx, validPageIds, allBacklinks, insertLog,
                    events >>
    /\ UNCHANGED << spaceVars, sideVars >>

\* The backlinks are filtered and inserted batch by batch.
InsertBacklinks ==
    /\ pc = "tx"
    /\ idx > Len(txOrder)
    /\ trxBacklinks' =
           Flatten(BacklinkBatches(FilterBacklinks(allBacklinks, validPageIds)))
    /\ pc' = "emit"
    /\ UNCHANGED << archive, mode, homePageId, pagesMap, nodes, pageLevel,
                    txOrder, idx, validPageIds, allBacklinks, trxPages,
                    txState, dbPages, dbBacklinks, insertLog, events,
                    failedStep, result >>
    /\ UNCHANGED << failure, spaceVars, sideVars >>

\* A call of backlinkRepo.insertBacklink throws.
BacklinkInsertFails ==
    /\ pc = "tx"
    /\ idx > Len(txOrder)
    /\ FilterBacklinks(allBacklinks, validPageIds) # << >>
    /\ Rollback("backlinks")
    /\ UNCHANGED << archive, mode, homePageId, pagesMap, nodes, pageLevel,
                    txOrder, idx, validPageIds, allBacklinks, insertLog,
                    events >>
    /\ UNCHANGED << spaceVars, sideVars >>

\* if (validPageIds.size > 0) this.eventEmitter.emit(PAGE_CREATED, ...):
\* the last statement but one of the callback given to executeTx.
EmitPagesCreated ==
    /\ pc = "emit"
    /\ events' = IF validPageIds # {}
                 THEN Append(events, [pageIds |-> validPageIds])
                 ELSE events
    /\ pc' = "commit"
    /\ UNCHANGED << archive, mode, homePageId, pagesMap, nodes, pageLevel,
                    txOrder, idx, validPageIds, allBacklinks, trxPages,
                    trxBacklinks, txState, dbPages, dbBacklinks, insertLog,
                    failedStep, result >>
    /\ UNCHANGED << failure, spaceVars, sideVars >>

\* The callback returned: executeTx commits and the handler returns.
CommitTx ==
    /\ pc = "commit"
    /\ dbPages' = dbPages \cup SeqToSet(trxPages)
    /\ dbBacklinks' = dbBacklinks \cup SeqToSet(trxBacklinks)
    /\ trxPages' = << >>
    /\ trxBacklinks' = << >>
    /\ txState' = "committed"
    /\ result' = "ok"
    /\ pc' = "done"
    /\ UNCHANGED << archive, mode, homePageId, pagesMap, nodes, pageLevel,
                    txOrder, idx, validPageIds, allBacklinks, insertLog,
                    events, failedStep >>
    /\ UNCHANGED << failure, spaceVars, sideVars >>

\* The commit itself fails.
CommitFails ==
    /\ pc = "commit"
    /\ Rollback("commit")
    /\ UNCHANGED << archive, mode, homePageId, pagesMap, nodes, pageLevel,
                    txOrder, idx, validPageIds, allBacklinks, insertLog,
                    events >>
    /\ UNCHANGED << spaceVars, sideVars >>

Next ==
    \/ ProcessConfluenceImport
    \/ ProcessConfluenceSpaceImport
    \/ OpenSpaceTransaction
    \/ InsertPage
    \/ PageStepFails
    \/ InsertBacklinks
    \/ BacklinkInsertFails
    \/ EmitPagesCreated
    \/ CommitTx
    \/ CommitFails

Spec == Init /\ [][Next]_vars

----------------------------------------------------------------------------
\* Vocabulary of the properties

\* The Page objects that are current and no historical version.
Surviving ==
    { i \in ConfIds : /\ archive[i].shape.contentStatus = "current"
                      /\ ~archive[i].shape.originalVersion }

\* The ids this run may generate, and the archive id a generated id is for.
RunIds == { NewId(c) : c \in ConfIds }
ConfOf(id) == id - MaxPages

\* The rows the open transaction wrote or the store shows.
WrittenRows == SeqToSet(trxPages) \cup dbPages
CommittedIds == { r.id : r \in dbPages }
InsertedIds == SeqToSet(insertLog)

Succeeded == pc = "done" /\ result = "ok"

\* The archive names a parent for page c, and the parser dropped that parent.
ParentFilteredOut(c) ==
    archive[c].parent # NoId /\ archive[c].parent \notin Surviving

\* The level index: level -> pages filed under it.
LevelIndex(level) == SeqToSet(PagesByLevel(pagesMap, pageLevel, level))

----------------------------------------------------------------------------
\* C1: when a step inside the transaction fails (a page's content or insert,
\* a backlink batch, the commit), no page row and no backlink row of the run
\* is in the store and the caller receives a failure; and at no time does
\* the store show some but not all of the run's pages.
C1_FailureLeavesNothing ==
    /\ failedStep # "none" =>
           /\ { r \in dbPages : r.id \in RunIds } = {}
           /\ dbBacklinks = {}
           /\ pc = "done" /\ result = "error"
    /\ LET seen == CommittedIds \cap RunIds
       IN  seen = {} \/ seen = { nodes[c].id : c \in DOMAIN nodes }

\* C1 witness: the commit failed after two pages had been inserted.
C1_Witness ==
    /\ failedStep = "commit"
    /\ Len(insertLog) >= 2
    /\ dbPages = {}
    /\ result = "error"

\* C2: a PAGE_CREATED event is emitted only once the transaction is
\* committed, and a run whose transaction rolled back has emitted none.
C2_EmitOnlyAfterCommit ==
    /\ events # << >> => txState = "committed"
    /\ txState = "rolledback" => events = << >>

\* C3 as stated: a successful run commits as many pages as survive, and in
\* space-import mode always one less.
C3_CountAlwaysMinusOne ==
    Succeeded =>
        Cardinality(CommittedIds) =
            IF mode = "space" THEN Cardinality(Surviving) - 1
                              ELSE Cardinality(Surviving)

\* C3 amended: a successful run commits as many pages as survive; in
\* space-import mode one less when homePageId names a surviving page, and
\* exactly as many when homePageId is null or names a page that did not
\* survive.
C3_CommittedCount ==
    Succeeded =>
        Cardinality(CommittedIds) =
            IF mode = "space" /\ homePageId \in Surviving
            THEN Cardinality(Surviving) - 1
            ELSE Cardinality(Surviving)

\* C3 witness: a successful space import whose home page was dropped by the
\* parser committed every surviving page.
C3_Witness ==
    /\ Succeeded
    /\ mode = "space"
    /\ homePageId # NoId
    /\ homePageId \notin Surviving
    /\ Cardinality(Surviving) = 2
    /\ Cardinality(CommittedIds) = 2

\* C4: every backlink row written by the run has its source and its target
\* among the page ids the run inserted.
C4_BacklinksWithinRun ==
    \A e \in SeqToSet(trxBacklinks) \cup dbBacklinks :
        e.sourcePageId \in InsertedIds /\ e.targetPageId \in InsertedIds

\* C4 witness: an edge between two different pages of the run is committed.
C4_Witness ==
    /\ Succeeded
    /\ \E e \in dbBacklinks : e.sourcePageId # e.targetPageId

\* C5: pages are inserted in ascending order of the level they are filed
\* under: a page of a lower level is never inserted after one of a higher
\* level.
C5_AscendingLevelOrder ==
    \A i, j \in DOMAIN insertLog :
        i < j => FiledLevel(ConfOf(insertLog[i]), pageLevel)
                     <= FiledLevel(ConfOf(insertLog[j]), pageLevel)

\* C5 witness: the archive lists C (child of B), B (child of A), A (root) in
\* that order, and the rows were inserted in the order A, B, C.
C5_Witness ==
    /\ MaxPages >= 3
    /\ archive[1].parent = 2 /\ archive[2].parent = 3
    /\ archive[3].parent = NoId
    /\ Surviving \cap (1..3) = 1..3
    /\ mode = "full"
    /\ Len(insertLog) >= 3
    /\ SubSeq(insertLog, 1, 3) = << NewId(3), NewId(2), NewId(1) >>

\* C6: in the level index every node with a parent is filed one level below
\* its parent, and level 0 holds exactly the nodes without parent.
C6_LevelIsParentPlusOne ==
    \A c \in DOMAIN nodes :
        /\ nodes[c].parentPageId # NoId =>
               \E p \in DOMAIN nodes :
                   /\ nodes[p].id = nodes[c].parentPageId
                   /\ FiledLevel(c, pageLevel) = FiledLevel(p, pageLevel) + 1
        /\ c \in LevelIndex(0) <=> nodes[c].parentPageId = NoId

\* C7: a node the breadth-first traversal never reached is in no level of
\* the level index and is not inserted.
C7_UnreachedExcluded ==
    \A c \in DOMAIN nodes :
        c \notin DOMAIN pageLevel =>
            /\ \A level \in 0..MaxPages : c \notin LevelIndex(level)
            /\ nodes[c].id \notin InsertedIds

C9_HomePageExcluded ==
    mode = "space" =>
        /\ homePageId \notin DOMAIN nodes
        /\ \A r \in WrittenRows :
               LET parent == archive[ConfOf(r.id)].parent IN
               /\ ConfOf(r.id) # homePageId
               /\ (parent # NoId /\ parent = homePageId) =>
                      r.parentPageId = NoId
               /\ (parent # NoId /\ parent # homePageId
                       /\ parent \in Surviving) =>
                      r.parentPageId = NewId(parent)
        /\ (Succeeded /\ txState = "committed") =>
               CommittedIds = { NewId(c) : c \in Surviving \ {homePageId} }

\* C9 witness: a successful space import with a surviving home page, one
\* committed child of the home page and one committed grandchild.
C9_Witness ==
    /\ mode = "space"
    /\ Succeeded
    /\ homePageId \in Surviving
    /\ \E r1, r2 \in dbPages :
           /\ archive[ConfOf(r1.id)].parent = homePageId
           /\ r1.parentPageId = NoId
           /\ archive[ConfOf(r2.id)].parent = ConfOf(r1.id)
           /\ r2.parentPageId = r1.id

\* C10: once the hierarchy is built, a node's parentPageId, when not null,
\* is the id of the node made for the page its archive record names as
\* parent, that node is another node of the run, and no node is its own
\* parent.
C10_ParentsResolve ==
    \A c \in DOMAIN nodes :
        nodes[c].parentPageId # NoId =>
            /\ archive[c].parent \in DOMAIN nodes
            /\ nodes[c].parentPageId = nodes[archive[c].parent].id
            /\ nodes[c].parentPageId # nodes[c].id

----------------------------------------------------------------------------
\* C14: a successful run that committed at least one page has emitted
\* exactly one PAGE_CREATED event, carrying exactly the committed page ids;
\* a finished run that committed no page has emitted no event.
C14_OneEventForCommitted ==
    /\ (Succeeded /\ CommittedIds # {}) =>
           events = << [pageIds |-> CommittedIds] >>
    /\ (pc = "done" /\ CommittedIds = {}) => events = << >>

\* No row of any table was written and no event emitted.
NothingWritten ==
    /\ dbSpaces = {} /\ dbSpaceMembers = {}
    /\ dbPages = {} /\ dbBacklinks = {}
    /\ trxPages = << >> /\ trxBacklinks = << >>
    /\ insertLog = << >>
    /\ events = << >>

\* C18: a run on an archive without surviving pages (either mode) ends with
\* nothing written and the caller receiving a no-pages-found failure; a
\* space import of an archive without space metadata ends with nothing
\* written and the caller receiving a no-space-info-found failure.
C18_AbortsWithFailure ==
    /\ (mode = "space" /\ spaceInfo = "absent") =>
           /\ NothingWritten
           /\ pc = "done" /\ result = "error"
           /\ failure = "no-space-info-found"
    /\ (mode # "none" /\ spaceInfo # "absent" /\ Surviving = {}) =>
           /\ NothingWritten
           /\ pc = "done" /\ result = "error"
           /\ failure = "no-pages-found"

----------------------------------------------------------------------------
\* Space imports with addUserToSpace failing for any of the admins.  The
\* archives are those whose Page objects all survive the parser and have no
\* parent or an earlier Page object as parent.
SpaceArchives ==
    { a \in Archives :
        \A i \in ConfIds : ParserKeeps(a[i].shape) /\ a[i].parent < i }

InitSpace ==
    /\ archive \in SpaceArchives
    /\ adminGrants \in SUBSET WorkspaceAdmins
    /\ InitPipeline
    /\ SideIdle

SpecSpace == InitSpace /\ [][Next]_vars

\* C20: in a space import the space row, the creator's membership and the
\* memberships of the admins addUserToSpace accepted exist while no
\* transaction has been opened yet, and they are unchanged in every later
\* state; after the transaction rolled back the space is still in the store
\* and no page row of the run is.
C20_SpaceOutlivesFailedTx ==
    mode = "space" =>
        /\ (pc = "space" \/ txState # "none") =>
               /\ NewSpace \in dbSpaces
               /\ dbSpaceMembers =
                      { SpaceMember(u) : u \in {Creator} \cup adminGrants }
        /\ pc = "space" => txState = "none"
        /\ txState = "rolledback" =>
               /\ NewSpace \in dbSpaces
               /\ { r \in dbPages : r.id \in RunIds } = {}

\* C20 witness: a space import created the space with the admin's
\* membership, inserted a page, and its transaction rolled back.
C20_Witness ==
    /\ mode = "space"
    /\ txState = "rolledback"
    /\ Len(insertLog) >= 1
    /\ dbSpaces = { NewSpace }
    /\ SpaceMember("admin") \in dbSpaceMembers
    /\ dbPages = {}

----------------------------------------------------------------------------
\* Step 5 / Step 6 of the handlers: sibling groups, their order, their keys.

\* Most pages the ordering is run on.
MaxSiblings == 3

\* prevPos = null, and a position not assigned yet.
NullKey == 0

\* The random jitter of generateJitteredKeyBetween.
Jitters == { 1, 2 }

\* What pageService.nextPagePosition may return.
NextPositions == { 1, 4 }

\* A title is a sequence of letters; a letter is its place in the alphabet
\* and its case.
LowerA == [letter |-> 1, upper |-> FALSE]
UpperA == [letter |-> 1, upper |-> TRUE]
UpperB == [letter |-> 2, upper |-> TRUE]

Titles == { << LowerA >>, << UpperA >>, << UpperB >> }

\* The UTF-16 code unit of a letter: 'A' is 65, 'a' is 97.
CodeUnit(ch) == IF ch.upper THEN 64 + ch.letter ELSE 96 + ch.letter

Sign(n) == IF n < 0 THEN -1 ELSE IF n > 0 THEN 1 ELSE 0

\* Comparison of two titles code unit by code unit, a proper prefix first.
RECURSIVE OrdinalCompare(_, _)
OrdinalCompare(a, b) ==
    IF a = << >> /\ b = << >> THEN 0
    ELSE IF a = << >> THEN -1
    ELSE IF b = << >> THEN 1
    ELSE IF CodeUnit(Head(a)) # CodeUnit(Head(b))
         THEN Sign(CodeUnit(Head(a)) - CodeUnit(Head(b)))
         ELSE OrdinalCompare(Tail(a), Tail(b))

\* The primary level of the collation: letters, whatever their case.
RECURSIVE PrimaryCompare(_, _)
PrimaryCompare(a, b) ==
    IF a = << >> /\ b = << >> THEN 0
    ELSE IF a = << >> THEN -1
    ELSE IF b = << >> THEN 1
    ELSE IF Head(a).letter # Head(b).letter
         THEN Sign(Head(a).letter - Head(b).letter)
         ELSE PrimaryCompare(Tail(a), Tail(b))

\* The tertiary level, for titles equal in their letters: at the first
\* difference of case the lower-case letter comes first.
RECURSIVE TertiaryCompare(_, _)
TertiaryCompare(a, b) ==
    IF a = << >> \/ b = << >> THEN 0
    ELSE IF Head(a).upper # Head(b).upper
         THEN (IF Head(b).upper THEN -1 ELSE 1)
         ELSE TertiaryCompare(Tail(a), Tail(b))

\* String.prototype.localeCompare with the default collation.
localeCompare(a, b) ==
    IF PrimaryCompare(a, b) # 0 THEN PrimaryCompare(a, b)
    ELSE TertiaryCompare(a, b)

\* The parents the pages of the ordering have: none (root), or one page.
OrdParents == { NoId, NewId(1) }

\* The archive's sequencePosition values (parseInt of the property).
Positions == { 1, 2 }

\* An ImportPageNode with the position of its archive record.
OrdPages == [parentPageId : OrdParents, position : Positions, name : Titles]

\* pagesMap in insertion order.
OrdInputs ==
    UNION { [1..n -> OrdPages] : n \in 1..MaxSiblings }

ComparePositionOnly(a, b) == a.position - b.position

\* The comparator given to siblings.sort.
Compare(a, b) ==
    IF a.position # b.position THEN a.position - b.position
    ELSE localeCompare(a.name, b.name)

\* Array.prototype.sort is stable: x goes behind every element that does
\* not compare greater than it.
RECURSIVE InsertSorted(_, _, _)
InsertSorted(x, sorted, pages) ==
    IF sorted = << >> THEN << x >>
    ELSE IF Compare(pages[x], pages[Head(sorted)]) < 0
         THEN << x >> \o sorted
         ELSE << Head(sorted) >> \o InsertSorted(x, Tail(sorted), pages)

RECURSIVE SortSiblings(_, _)
SortSiblings(group, pages) ==
    IF group = << >> THEN << >>
    ELSE InsertSorted(group[Len(group)],
                      SortSiblings(SubSeq(group, 1, Len(group) - 1), pages),
                      pages)

\* siblingsMap.get(parent) before the sort: the pages of one parent in the
\* order pagesMap.forEach visits them.
RECURSIVE GroupOf(_, _, _)
GroupOf(parent, pages, i) ==
    IF i > Len(pages) THEN << >>
    ELSE (IF pages[i].parentPageId = parent THEN << i >> ELSE << >>)
             \o GroupOf(parent, pages, i + 1)

SiblingsMap(pages) ==
    [parent \in OrdParents |-> SortSiblings(GroupOf(parent, pages, 1), pages)]

\* generateJitteredKeyBetween(prevPos, null): a key behind prevPos, or any
\* key when prevPos is null.
generateJitteredKeyBetween(prevPos, jitter) == prevPos + jitter

KeysWithoutPrev(prevPos, jitters) ==
    [k \in DOMAIN jitters |->
        generateJitteredKeyBetween(prevPos, jitters[k])]

\* let prevPos = null; for (const page of sibs) { page.position =
\* generateJitteredKeyBetween(prevPos, null); prevPos = page.position }
RECURSIVE KeysBehind(_, _)
KeysBehind(prevPos, jitters) ==
    IF jitters = << >> THEN << >>
    ELSE LET key == generateJitteredKeyBetween(prevPos, Head(jitters))
         IN  << key >> \o KeysBehind(key, Tail(jitters))

FirstRootKeyGenerated(nextPosition, jitter) ==
    generateJitteredKeyBetween(NullKey, jitter)

\* The first root of a full import: page.position = nextPosition.
FirstRootKeyFull(nextPosition, jitter) == nextPosition

\* The first root of a space import: generateJitteredKeyBetween(null, null).
FirstRootKeySpace(nextPosition, jitter) ==
    generateJitteredKeyBetween(NullKey, jitter)

\* The keys of the root group.
RootKeys(first, jitters) ==
    << first >> \o KeysBehind(first, Tail(jitters))

\* page.position of the pages of one group, by page.
Positioned(position, sibs, keys) ==
    [i \in DOMAIN position |->
        IF \E k \in DOMAIN sibs : sibs[k] = i
        THEN keys[CHOOSE k \in DOMAIN sibs : sibs[k] = i]
        ELSE position[i]]

\* An archive of MaxPages current root pages, and the pipeline at rest: the
\* state of the run's variables while one function is examined by itself.
IdleArchive ==
    [i \in ConfIds |->
        [parent |-> NoId,
         shape |-> [contentStatus |-> "current", originalVersion |-> FALSE]]]

PipelineIdle ==
    /\ archive = IdleArchive
    /\ adminGrants = WorkspaceAdmins
    /\ InitPipeline

InitOrder ==
    /\ ord \in { [pc |-> "sort", mode |-> m, pages |-> ps,
                  siblingsMap |-> [parent \in OrdParents |-> << >>],
                  position |-> [i \in DOMAIN ps |-> NullKey],
                  nextPosition |-> NullKey] :
                 m \in {"full", "space"}, ps \in OrdInputs }
    /\ prs = PrsIdle
    /\ lnk = LnkIdle
    /\ runs = RunsIdle
    /\ batch = BatchIdle
    /\ PipelineIdle

\* The grouping of pagesMap by parentPageId and the sort of every group.
SortSiblingGroups ==
    /\ ord.pc = "sort"
    /\ ord' = [ord EXCEPT !.pc = "root",
                          !.siblingsMap = SiblingsMap(ord.pages)]
    /\ UNCHANGED << pipeVars, spaceVars, prs, lnk, runs, batch >>

\* Full import, root pages: the first takes nextPagePosition's value.
RootPositionsFull ==
    /\ ord.pc = "root"
    /\ ord.mode = "full"
    /\ LET rootSibs == ord.siblingsMap[NoId] IN
       IF rootSibs = << >>
       THEN ord' = [ord EXCEPT !.pc = "children"]
       ELSE \E nextPosition \in NextPositions :
            \E jitters \in [1..Len(rootSibs) -> Jitters] :
              ord' = [ord EXCEPT
                        !.pc = "children",
                        !.nextPosition = nextPosition,
                        !.position =
                            Positioned(ord.position, rootSibs,
                                RootKeys(FirstRootKeyFull(nextPosition,
                                                          jitters[1]),
                                         jitters))]
    /\ UNCHANGED << pipeVars, spaceVars, prs, lnk, runs, batch >>

\* Space import, root pages: nextPagePosition is not called.
RootPositionsSpace ==
    /\ ord.pc = "root"
    /\ ord.mode = "space"
    /\ LET rootSibs == ord.siblingsMap[NoId] IN
       IF rootSibs = << >>
       THEN ord' = [ord EXCEPT !.pc = "children"]
       ELSE \E jitters \in [1..Len(rootSibs) -> Jitters] :
              ord' = [ord EXCEPT
                        !.pc = "children",
                        !.position =
                            Positioned(ord.position, rootSibs,
                                RootKeys(FirstRootKeySpace(ord.nextPosition,
                                                           jitters[1]),
                                         jitters))]
    /\ UNCHANGED << pipeVars, spaceVars, prs, lnk, runs, batch >>

\* Non-root pages, the same in both handlers.
NonRootPositions ==
    /\ ord.pc = "children"
    /\ LET sibs == ord.siblingsMap[NewId(1)] IN
       \E jitters \in [1..Len(sibs) -> Jitters] :
         ord' = [ord EXCEPT
                   !.pc = "done",
                   !.position = Positioned(ord.position, sibs,
                                           KeysBehind(NullKey, jitters))]
    /\ UNCHANGED << pipeVars, spaceVars, prs, lnk, runs, batch >>

NextOrder ==
    \/ SortSiblingGroups
    \/ RootPositionsFull
    \/ RootPositionsSpace
    \/ NonRootPositions

SpecOrder == InitOrder /\ [][NextOrder]_vars

\* The sibling groups whose keys have been assigned.
KeyedGroups ==
    IF ord.pc = "done" THEN OrdParents
    ELSE IF ord.pc = "children" THEN { NoId }
    ELSE {}

\* C11: in every sibling group whose keys are assigned (the root group
\* included, in both modes), a sibling that comes earlier in the sorted
\* order has a strictly smaller order key, and every sibling has a key.
C11_KeysStrictlyIncrease ==
    \A g \in KeyedGroups :
        LET sibs == ord.siblingsMap[g] IN
        /\ \A i \in DOMAIN sibs : ord.position[sibs[i]] # NullKey
        /\ \A i, j \in DOMAIN sibs :
               i < j => ord.position[sibs[i]] < ord.position[sibs[j]]

\* C11 witness: a full import keyed two roots, the second behind the first,
\* and a child.
C11_Witness ==
    /\ ord.pc = "done"
    /\ ord.mode = "full"
    /\ Len(ord.siblingsMap[NoId]) = 2
    /\ Len(ord.siblingsMap[NewId(1)]) = 1
    /\ ord.position[ord.siblingsMap[NoId][1]] = ord.nextPosition
    /\ ord.position[ord.siblingsMap[NoId][2]] > ord.nextPosition

\* C12: every sorted sibling group holds exactly the pages of its parent,
\* in ascending order of their archive position; of two siblings with equal
\* positions the one whose title is alphabetically first comes first, and
\* titles that differ only in case are told apart (the lower-case one comes
\* first) instead of being left in insertion order.
C12_SortedByPositionThenTitle ==
    ord.pc \in {"root", "children", "done"} =>
        \A g \in OrdParents :
            LET sibs == ord.siblingsMap[g] IN
            /\ SeqToSet(sibs) =
                   { i \in DOMAIN ord.pages : ord.pages[i].parentPageId = g }
            /\ \A i, j \in DOMAIN sibs :
                   i < j =>
                       LET a == ord.pages[sibs[i]]
                           b == ord.pages[sibs[j]]
                       IN  /\ sibs[i] # sibs[j]
                           /\ a.position <= b.position
                           /\ a.position = b.position =>
                                  \/ PrimaryCompare(a.name, b.name) < 0
                                  \/ /\ PrimaryCompare(a.name, b.name) = 0
                                     /\ TertiaryCompare(a.name, b.name) < 0
                                  \/ a.name = b.name

\* C12 witness: pagesMap lists three roots as (2, "A"), (1, "B"), (1, "a");
\* they are sorted to (1, "a"), (1, "B"), (2, "A").
C12_Witness ==
    /\ ord.pc = "root"
    /\ Len(ord.pages) = 3
    /\ ord.pages[1] = [parentPageId |-> NoId, position |-> 2,
                       name |-> << UpperA >>]
    /\ ord.pages[2] = [parentPageId |-> NoId, position |-> 1,
                       name |-> << UpperB >>]
    /\ ord.pages[3] = [parentPageId |-> NoId, position |-> 1,
                       name |-> << LowerA >>]
    /\ ord.siblingsMap[NoId] = << 3, 2, 1 >>

\* The sorted root group, once its keys are assigned.
KeyedRoots ==
    IF ord.pc \in {"children", "done"} THEN ord.siblingsMap[NoId] ELSE << >>

\* Every root but the first has a key strictly behind the key before it.
LaterRootsBehind ==
    \A k \in DOMAIN KeyedRoots :
        k > 1 => ord.position[KeyedRoots[k]] > ord.position[KeyedRoots[k - 1]]

\* C13 as stated: in both modes the key of the first root is the value
\* nextPagePosition returned for the destination space, and every later
\* root key lies strictly behind the previous one.
C13_FirstRootKeyFromStore ==
    KeyedRoots # << >> =>
        /\ ord.nextPosition # NullKey
        /\ ord.position[KeyedRoots[1]] = ord.nextPosition
        /\ LaterRootsBehind

\* C13 amended: in a full import the key of the first root is the value
\* nextPagePosition returned; in a space import nextPagePosition is not
\* asked and the first root key is generated with no lower and no upper
\* bound; in both modes every later root key lies strictly behind the
\* previous one.
C13_FirstRootKeyByMode ==
    KeyedRoots # << >> =>
        /\ ord.mode = "full" =>
               /\ ord.nextPosition \in NextPositions
               /\ ord.position[KeyedRoots[1]] = ord.nextPosition
        /\ ord.mode = "space" =>
               /\ ord.nextPosition = NullKey
               /\ ord.position[KeyedRoots[1]] \in
                      { generateJitteredKeyBetween(NullKey, j) : j \in Jitters }
        /\ LaterRootsBehind

\* C13 witness: a space import keyed two roots without a value from
\* nextPagePosition.
C13_Witness ==
    /\ ord.mode = "space"
    /\ Len(KeyedRoots) = 2
    /\ ord.nextPosition = NullKey
    /\ ord.position[KeyedRoots[1]] # NullKey
    /\ ord.position[KeyedRoots[2]] > ord.position[KeyedRoots[1]]

----------------------------------------------------------------------------
\* convertConfluenceContent and resolveConfluenceLinks on one page's content.

\* Most elements of one page's content.
MaxElems == 2

\* Titles are single-segment names, file names are paths of segments; a text
\* is a name too.
NoName == << >>

LinkTitles == { << "Home" >>, << "Guide" >>, << "Missing" >> }

PageTitles == { << "Home" >>, << "Guide" >> }

RefFileNames == { << "a.png" >>, << "b.pdf" >> }

AttachmentNames == { << "a.png" >>, << "dir", "a.png" >>, << "b.pdf" >> }

LinkBodies == { NoName, << "see" >> }

\* The elements of the storage format this model follows: text, and the
\* ac:link / ac:image / ri:attachment elements that refer to a page or to an
\* attachment.
RawElements ==
    { [kind |-> "text", name |-> NoName, body |-> << "words" >>] }
    \cup [kind : {"page-link"}, name : LinkTitles, body : LinkBodies]
    \cup [kind : {"attachment-link"}, name : RefFileNames,
          body : { << "see" >> }]
    \cup [kind : {"attachment-image", "attachment"}, name : RefFileNames,
          body : {NoName}]

RawContents == UNION { [1..n -> RawElements] : n \in 0..MaxElems }

\* An element of the HTML: text, <a href> or <img src>; the href or src is
\* its scheme and what follows the scheme.
Html(tag, scheme, target, pageId, text) ==
    [tag |-> tag, scheme |-> scheme, target |-> target, pageId |-> pageId,
     text |-> text]

\* $link.find('ac\\:link-body').text() || ... || pageTitle
LinkText(raw) == IF raw.body # NoName THEN raw.body ELSE raw.name

\* processPageLinks, processAttachmentImages, processAttachmentLinks on one
\* element.
ConvertElement(raw) ==
    CASE raw.kind = "page-link" ->
             Html("a", "confluence-page:", raw.name, NoId, LinkText(raw))
      [] raw.kind = "attachment-link" ->
             Html("a", "confluence-attachment:", raw.name, NoId,
                  LinkText(raw))
      [] raw.kind = "attachment-image" ->
             Html("img", "confluence-attachment:", raw.name, NoId, raw.name)
      [] raw.kind = "attachment" ->
             Html("a", "confluence-attachment:", raw.name, NoId, raw.name)
      [] OTHER -> Html("text", "", NoName, NoId, raw.body)

convertConfluenceContent(content) ==
    [k \in DOMAIN content |-> ConvertElement(content[k])]

\* The pages of the archive the page's run imports, by archive id, and the
\* run: full import, or space import with its homePageId.
LinkArchives == [1..2 -> PageTitles]

LinkRuns ==
    { [mode |-> "full", homePageId |-> NoId] }
    \cup [mode : {"space"}, homePageId : {NoId, 1, 2}]

\* The pages titleToNewPageMeta.set is called for, in order.
MappedPages(titles, run) ==
    { i \in DOMAIN titles : ~(run.mode = "space" /\ IsHomePage(i, run.homePageId)) }

\* titleToNewPageMeta: a later page of the same title replaces an earlier.
TitleToNewPageMeta(titles, run) ==
    [t \in { titles[i] : i \in MappedPages(titles, run) } |->
        LET last == CHOOSE i \in MappedPages(titles, run) :
                        /\ titles[i] = t
                        /\ \A j \in MappedPages(titles, run) :
                               titles[j] = t => j <= i
        IN  NewId(last)]

\* attachmentPathMap in insertion order: att.fileName -> att.href, no file
\* name twice.
AttachmentPathMaps ==
    { m \in UNION { [1..n -> AttachmentNames] : n \in 0..2 } :
        \A i, j \in DOMAIN m : m[i] = m[j] => i = j }

\* key.endsWith(`/${fileName}`)
EndsWith(key, fileName) ==
    /\ Len(key) > Len(fileName)
    /\ SubSeq(key, Len(key) - Len(fileName) + 1, Len(key)) = fileName

FindAttachmentNever(pathMap, fileName) == NoName

\* for (const [key, value] of attachmentPathMap.entries()) { if (...)
\* { resolvedPath = key; break } }: the first matching key, or null.
FindAttachment(pathMap, fileName) ==
    LET hits == { i \in DOMAIN pathMap :
                    EndsWith(pathMap[i], fileName) \/ pathMap[i] = fileName }
    IN  IF hits = {} THEN NoName
        ELSE pathMap[CHOOSE i \in hits : \A j \in hits : i <= j]

ResolvePageLinkKeepsAnchor(e, titleMap) ==
    IF e.target \in DOMAIN titleMap
    THEN Html("a", "page:", NoName, titleMap[e.target], e.text)
    ELSE e

\* a[href^="confluence-page:"]: href = page:<id>, or the anchor replaced by
\* its text.
ResolvePageLink(e, titleMap) ==
    IF e.target \in DOMAIN titleMap
    THEN Html("a", "page:", NoName, titleMap[e.target], e.text)
    ELSE Html("text", "", NoName, NoId, e.text)

\* a[href^="confluence-attachment:"] and img[src^="confluence-attachment:"]:
\* href or src = resolvedPath when there is one.
ResolveAttachment(e, pathMap) ==
    LET resolvedPath == FindAttachment(pathMap, e.target)
    IN  IF resolvedPath # NoName
        THEN Html(e.tag, "", resolvedPath, NoId, e.text)
        ELSE e

ResolveElement(e, titleMap, pathMap) ==
    IF e.tag = "a" /\ e.scheme = "confluence-page:"
    THEN ResolvePageLink(e, titleMap)
    ELSE IF e.tag \in {"a", "img"} /\ e.scheme = "confluence-attachment:"
    THEN ResolveAttachment(e, pathMap)
    ELSE e

resolveConfluenceLinks(html, titleMap, pathMap) ==
    [k \in DOMAIN html |-> ResolveElement(html[k], titleMap, pathMap)]

\* The backlinks formatImportHtml reports for a page: one edge for every
\* anchor of the page that refers to a page.
RECURSIVE FormatBacklinks(_, _)
FormatBacklinks(html, sourcePageId) ==
    IF html = << >> THEN << >>
    ELSE (IF Head(html).tag = "a" /\ Head(html).scheme = "page:"
          THEN << [sourcePageId |-> sourcePageId,
                   targetPageId |-> Head(html).pageId] >>
          ELSE << >>)
             \o FormatBacklinks(Tail(html), sourcePageId)

\* The page whose content is converted: the third page of the archive.
LinkSource == NewId(3)

InitLinks ==
    /\ lnk \in { [pc |-> "convert", titles |-> t, run |-> r, pathMap |-> m,
                  content |-> c, converted |-> << >>, html |-> << >>,
                  backlinks |-> << >>] :
                 t \in LinkArchives, r \in LinkRuns,
                 m \in AttachmentPathMaps, c \in RawContents }
    /\ ord = OrdIdle
    /\ prs = PrsIdle
    /\ runs = RunsIdle
    /\ batch = BatchIdle
    /\ PipelineIdle

\* htmlContent = convertConfluenceContent(confPage.content, ...)
ConvertContent ==
    /\ lnk.pc = "convert"
    /\ lnk' = [lnk EXCEPT !.pc = "resolve",
                          !.converted = convertConfluenceContent(lnk.content)]
    /\ UNCHANGED << pipeVars, spaceVars, ord, prs, runs, batch >>

\* htmlContent = resolveConfluenceLinks(htmlContent, confId,
\* titleToNewPageMeta, attachmentPathMap)
ResolveLinks ==
    /\ lnk.pc = "resolve"
    /\ lnk' = [lnk EXCEPT
                 !.pc = "format",
                 !.html = resolveConfluenceLinks(
                              lnk.converted,
                              TitleToNewPageMeta(lnk.titles, lnk.run),
                              lnk.pathMap)]
    /\ UNCHANGED << pipeVars, spaceVars, ord, prs, runs, batch >>

\* const { html, backlinks } = await formatImportHtml({...})
FormatHtml ==
    /\ lnk.pc = "format"
    /\ lnk' = [lnk EXCEPT !.pc = "done",
                          !.backlinks = FormatBacklinks(lnk.html, LinkSource)]
    /\ UNCHANGED << pipeVars, spaceVars, ord, prs, runs, batch >>

NextLinks ==
    \/ ConvertContent
    \/ ResolveLinks
    \/ FormatHtml

SpecLinks == InitLinks /\ [][NextLinks]_vars

\* The content has been through resolveConfluenceLinks.
LinksResolved == lnk.pc \in {"format", "done"}

\* The elements of the converted content that are page placeholders, and
\* those that are attachment placeholders.
PagePlaceholders ==
    IF lnk.pc \in {"resolve", "format", "done"}
    THEN { k \in DOMAIN lnk.converted :
             lnk.converted[k].scheme = "confluence-page:" }
    ELSE {}

AttachmentPlaceholders ==
    IF lnk.pc \in {"resolve", "format", "done"}
    THEN { k \in DOMAIN lnk.converted :
             lnk.converted[k].scheme = "confluence-attachment:" }
    ELSE {}

\* The page's attachmentPathMap has a key equal to the file name or ending
\* with "/" and the file name.
AttachmentMatches(fileName) ==
    \E i \in DOMAIN lnk.pathMap :
        lnk.pathMap[i] = fileName \/ EndsWith(lnk.pathMap[i], fileName)

\* C15 as stated: after resolveConfluenceLinks the content holds no page
\* placeholder and no attachment placeholder, whatever matched.
C15_NoPlaceholderLeft ==
    LinksResolved =>
        \A k \in DOMAIN lnk.html :
            lnk.html[k].scheme \notin
                {"confluence-page:", "confluence-attachment:"}

\* C15 amended: after resolveConfluenceLinks the content holds no page
\* placeholder; an attachment placeholder is gone (its href or src is the
\* matching key) exactly when the page's attachment map has a matching key,
\* and is left unchanged when it has none.
C15_PlaceholdersResolvedOrKept ==
    LinksResolved =>
        /\ \A k \in DOMAIN lnk.html :
               lnk.html[k].scheme # "confluence-page:"
        /\ \A k \in AttachmentPlaceholders :
               IF AttachmentMatches(lnk.converted[k].target)
               THEN /\ lnk.html[k].scheme = ""
                    /\ lnk.html[k].tag = lnk.converted[k].tag
                    /\ lnk.html[k].target \in SeqToSet(lnk.pathMap)
               ELSE lnk.html[k] = lnk.converted[k]

\* C15 witness: the link to a.png was resolved by the key dir/a.png, the
\* image b.pdf matched nothing and still is a placeholder.
C15_Witness ==
    /\ LinksResolved
    /\ lnk.pathMap = << << "dir", "a.png" >> >>
    /\ Len(lnk.html) = 2
    /\ lnk.content[1].kind = "attachment-link"
    /\ lnk.html[1].scheme = "" /\ lnk.html[1].target = << "dir", "a.png" >>
    /\ lnk.content[2].kind = "attachment-image"
    /\ lnk.html[2].scheme = "confluence-attachment:"
    /\ lnk.html[2].target = << "b.pdf" >>

\* C16: a page placeholder whose title is a key of the run's title map
\* becomes an anchor to "page:" and the id the map holds for the title, with
\* its text; any other page placeholder (a title no page of the archive
\* has, or only the home page a space import skips has) becomes its display
\* text, no anchor; and formatImportHtml is given exactly one page anchor
\* for every resolved placeholder, so its backlinks have a resolved title's
\* page as target.
C16_PageLinkResolvedIffInMap ==
    LinksResolved =>
        LET titleMap == TitleToNewPageMeta(lnk.titles, lnk.run) IN
        /\ \A k \in PagePlaceholders :
               LET e == lnk.converted[k] IN
               IF e.target \in DOMAIN titleMap
               THEN /\ lnk.html[k].tag = "a"
                    /\ lnk.html[k].scheme = "page:"
                    /\ lnk.html[k].pageId = titleMap[e.target]
                    /\ lnk.html[k].text = e.text
               ELSE /\ lnk.html[k].tag = "text"
                    /\ lnk.html[k].scheme = ""
                    /\ lnk.html[k].text = e.text
        /\ \A t \in LinkTitles :
               t \in DOMAIN titleMap <=>
                   \E i \in DOMAIN lnk.titles :
                       /\ lnk.titles[i] = t
                       /\ ~(lnk.run.mode = "space" /\ i = lnk.run.homePageId)
        /\ lnk.pc = "done" =>
               /\ Len(lnk.backlinks) =
                      Cardinality({ k \in PagePlaceholders :
                          lnk.converted[k].target \in DOMAIN titleMap })
               /\ \A b \in SeqToSet(lnk.backlinks) :
                      \E k \in PagePlaceholders :
                          /\ lnk.converted[k].target \in DOMAIN titleMap
                          /\ b.targetPageId = titleMap[lnk.converted[k].target]

\* C16 witness: a space import whose home page is titled Home; the page
\* links to Home and to Guide: the first link became the text "see", the
\* second an anchor to the new id of Guide, and one backlink was reported.
C16_Witness ==
    /\ lnk.pc = "done"
    /\ lnk.run = [mode |-> "space", homePageId |-> 1]
    /\ lnk.titles = << << "Home" >>, << "Guide" >> >>
    /\ Len(lnk.content) = 2
    /\ lnk.content[1] = [kind |-> "page-link", name |-> << "Home" >>,
                         body |-> << "see" >>]
    /\ lnk.content[2].kind = "page-link"
    /\ lnk.content[2].name = << "Guide" >>
    /\ lnk.html[1] = Html("text", "", NoName, NoId, << "see" >>)
    /\ lnk.html[2].scheme = "page:"
    /\ lnk.html[2].pageId = NewId(2)
    /\ lnk.backlinks = << [sourcePageId |-> LinkSource,
                           targetPageId |-> NewId(2)] >>

----------------------------------------------------------------------------
\* One call of parseConfluenceExport.

\* Most object[class="Page"] elements of entities.xml.
MaxRecords == 2

\* The ids Page objects carry; NoId is an object without id property.
RecordIds == { NoId, 1, 2 }

\* contentStatus: null ("none"), 'current', or another value.
PageRecords ==
    [id : RecordIds, contentStatus : {"none", "current", "draft"},
     originalVersion : BOOLEAN]

Manifests ==
    [file : {"absent", "unparsable", "valid"},
     records : UNION { [1..n -> PageRecords] : n \in 0..MaxRecords }]

\* The Page objects load(xmlContent, { xml: true }) finds: all of a
\* well-formed file; of a file that is no well-formed XML the parser, which
\* never throws, finds those in front of some point of the file.
LoadedRecords(manifest) ==
    IF manifest.file = "valid" THEN { manifest.records }
    ELSE { SubSeq(manifest.records, 1, n) : n \in 0..Len(manifest.records) }

\* The callback of the third pass puts the object in the map.
RecordKept(rec) == ParserKeeps(rec) /\ rec.id # NoId

\* pages after the third pass: for every id the last kept object with it.
PagesMapOf(records) ==
    [id \in { records[k].id : k \in { j \in DOMAIN records :
                                         RecordKept(records[j]) } } |->
        LET last == CHOOSE k \in DOMAIN records :
                        /\ records[k].id = id /\ RecordKept(records[k])
                        /\ \A j \in DOMAIN records :
                               (records[j].id = id /\ RecordKept(records[j]))
                                   => j <= k
        IN  records[last]]

\* fs.readFile(entitiesPath, 'utf-8') resolves.
ReadFile(file) == file # "absent"

InitParser ==
    /\ prs \in { [pc |-> "read", manifest |-> m, outcome |-> "none",
                  error |-> "none", loaded |-> << >>, pages |-> << >>] :
                 m \in Manifests }
    /\ ord = OrdIdle
    /\ lnk = LnkIdle
    /\ runs = RunsIdle
    /\ batch = BatchIdle
    /\ PipelineIdle

\* readFile rejects: the catch block throws.
ReadManifestFails ==
    /\ prs.pc = "read"
    /\ ~ReadFile(prs.manifest.file)
    /\ prs' = [prs EXCEPT !.pc = "done", !.outcome = "threw",
                          !.error = "malformed-archive"]
    /\ UNCHANGED << pipeVars, spaceVars, ord, lnk, runs, batch >>

\* readFile resolves: load, the passes over the objects, return.
ParseManifest ==
    /\ prs.pc = "read"
    /\ ReadFile(prs.manifest.file)
    /\ \E records \in LoadedRecords(prs.manifest) :
         prs' = [prs EXCEPT !.pc = "done", !.outcome = "returned",
                            !.loaded = records,
                            !.pages = PagesMapOf(records)]
    /\ UNCHANGED << pipeVars, spaceVars, ord, lnk, runs, batch >>

NextParser ==
    \/ ReadManifestFails
    \/ ParseManifest

SpecParser == InitParser /\ [][NextParser]_vars

\* The call returned a parse result.
Parsed == prs.pc = "done" /\ prs.outcome = "returned"

\* C17 as stated: the page map has an id exactly when a Page object with
\* that id has status current and no originalVersion.
C17_KeptIffCurrent ==
    Parsed =>
        \A id \in RecordIds \ {NoId} :
            id \in DOMAIN prs.pages <=>
                \E k \in DOMAIN prs.loaded :
                    /\ prs.loaded[k].id = id
                    /\ prs.loaded[k].contentStatus = "current"
                    /\ ~prs.loaded[k].originalVersion

\* C17 amended: the page map has an id exactly when a Page object with that
\* id has no originalVersion and a status that is current or absent; the map
\* holds such an object for the id, so no object with a status other than
\* current and no object with an originalVersion is in the map.
C17_KeptIffCurrentOrNoStatus ==
    Parsed =>
        /\ \A id \in RecordIds \ {NoId} :
               id \in DOMAIN prs.pages <=>
                   \E k \in DOMAIN prs.loaded :
                       /\ prs.loaded[k].id = id
                       /\ prs.loaded[k].contentStatus \in {"current", "none"}
                       /\ ~prs.loaded[k].originalVersion
        /\ \A id \in DOMAIN prs.pages :
               /\ prs.pages[id].id = id
               /\ prs.pages[id] \in SeqToSet(prs.loaded)
               /\ prs.pages[id].contentStatus \in {"current", "none"}
               /\ ~prs.pages[id].originalVersion

\* C17 witness: of a Page object without status and a historical version of
\* it, the first is in the map and the second is not.
C17_Witness ==
    /\ Parsed
    /\ prs.manifest.file = "valid"
    /\ prs.loaded = << [id |-> 1, contentStatus |-> "none",
                        originalVersion |-> FALSE],
                       [id |-> 2, contentStatus |-> "current",
                        originalVersion |-> TRUE] >>
    /\ DOMAIN prs.pages = {1}

\* C19: a call for an archive whose entities.xml is absent, or is not
\* well-formed XML, ends with a malformed-archive error and returns no
\* parse result.
C19_MalformedManifestFails ==
    (prs.pc = "done" /\ prs.manifest.file \in {"absent", "unparsable"}) =>
        /\ prs.outcome = "threw"
        /\ prs.error = "malformed-archive"

----------------------------------------------------------------------------
\* The attachments of one Page object (third pass of parseConfluenceExport).

\* Most elements of a page's collection[name="attachments"].
MaxRefs == 2

\* The ids Attachment objects and collection elements carry.
AttachmentIds == { 1, 2 }

\* The page whose callback runs, and another page of the archive.
ThisPage == 1

OtherPage == 2

\* attachmentMap after the second pass: the Attachment objects with id and
\* title, each with the page its containerContent names (NoId: none).
\* Attachment objects are listed, and so iterated, in ascending id order.
AttachmentObjectMaps ==
    UNION { [S -> { NoId, ThisPage, OtherPage }] : S \in SUBSET AttachmentIds }

\* The ids of the elements of the page's own collection, in document order.
OwnCollections ==
    UNION { [1..n -> AttachmentIds] : n \in 0..MaxRefs }

\* $obj.find('collection[name="attachments"] element').each(...): every
\* element whose id attachmentMap has is pushed.
CollectOwn(refs, attMap) ==
    LET Known(attId) == attId \in DOMAIN attMap
    IN  SelectSeq(refs, Known)

\* attachmentMap.forEach(...): every attachment whose pageId is the page's
\* id and whose id is not yet in pageAttachments is pushed.
RECURSIVE CollectContainerFrom(_, _, _, _)
CollectContainerFrom(attId, pageAttachments, attMap, pageId) ==
    IF attId > Cardinality(AttachmentIds) THEN pageAttachments
    ELSE CollectContainerFrom(
             attId + 1,
             IF /\ attId \in DOMAIN attMap
                /\ attMap[attId] = pageId
                /\ attId \notin SeqToSet(pageAttachments)
             THEN Append(pageAttachments, attId)
             ELSE pageAttachments,
             attMap, pageId)

CollectContainer(pageAttachments, attMap, pageId) ==
    CollectContainerFrom(1, pageAttachments, attMap, pageId)

InitAttachments ==
    /\ prs \in { [pc |-> "own", attachmentMap |-> m, collection |-> c,
                  pageAttachments |-> << >>] :
                 m \in AttachmentObjectMaps, c \in OwnCollections }
    /\ ord = OrdIdle
    /\ lnk = LnkIdle
    /\ runs = RunsIdle
    /\ batch = BatchIdle
    /\ PipelineIdle

\* Lines 166-178.
CollectOwnAttachments ==
    /\ prs.pc = "own"
    /\ prs' = [prs EXCEPT !.pc = "container",
                          !.pageAttachments =
                              CollectOwn(prs.collection, prs.attachmentMap)]
    /\ UNCHANGED << pipeVars, spaceVars, ord, lnk, runs, batch >>

\* Lines 181-192, and the page is put in the map with pageAttachments.
CollectContainerAttachments ==
    /\ prs.pc = "container"
    /\ prs' = [prs EXCEPT !.pc = "done",
                          !.pageAttachments =
                              CollectContainer(prs.pageAttachments,
                                               prs.attachmentMap, ThisPage)]
    /\ UNCHANGED << pipeVars, spaceVars, ord, lnk, runs, batch >>

NextAttachments ==
    \/ CollectOwnAttachments
    \/ CollectContainerAttachments

SpecAttachments == InitAttachments /\ [][NextAttachments]_vars

\* The attachments the archive gives the page: those its collection lists
\* and those whose container is the page.
AttachmentsOfPage ==
    { a \in DOMAIN prs.attachmentMap :
        \/ a \in SeqToSet(prs.collection)
        \/ prs.attachmentMap[a] = ThisPage }

\* C21: the attachment set of a page is the union of the attachments its
\* collection lists and the attachments whose container is the page, and no
\* attachment id occurs in it more than once.
C21_AttachmentSetIsUnionOnce ==
    prs.pc = "done" =>
        /\ SeqToSet(prs.pageAttachments) = AttachmentsOfPage
        /\ Len(prs.pageAttachments) = Cardinality(AttachmentsOfPage)

----------------------------------------------------------------------------
\* Two runs of processConfluenceImport.

\* Most pages of the archive of one of two runs.
MaxRunPages == 2

RunConfIds == 1..MaxRunPages

RunNumbers == { 1, 2 }

RunIdShared(run, confId) == MaxRunPages + confId

\* v7() in run `run` for the page confId: no id is generated twice.
RunId(run, confId) == run * MaxRunPages + confId

IdsOfRun(run) == { RunId(run, c) : c \in RunConfIds }

RunTitles == { << UpperA >>, << UpperB >> }

\* A current Page object: its parent, its title, and the title its content
\* links to (NoName: the content has no link).  No page has a position
\* property: parseInt('0').
RunPages ==
    [parent : {NoId} \cup RunConfIds, title : RunTitles,
     link : { NoName, << UpperA >> }]

RunArchives == [RunConfIds -> RunPages]

\* The keys of confluencePages and of pagesMap, in Map order.
RunKeys == [c \in RunConfIds |-> c]

\* Steps 3 and 4: the ImportPageNode of every page, with the position of
\* its archive record.
RunNodes(run, arch) ==
    [c \in RunConfIds |->
        [id |-> RunId(run, c),
         parentPageId |-> IF arch[c].parent # NoId
                          THEN RunId(run, arch[c].parent)
                          ELSE NoId,
         name |-> arch[c].title,
         position |-> 0]]

\* titleToNewPageMeta of the run: a later page of a title replaces an
\* earlier.
RunTitleMap(run, arch) ==
    [t \in { arch[c].title : c \in RunConfIds } |->
        RunId(run, CHOOSE c \in RunConfIds :
                       /\ arch[c].title = t
                       /\ \A d \in RunConfIds : arch[d].title = t => d <= c)]

\* The page's content after convertConfluenceContent and
\* resolveConfluenceLinks.
RunHtml(run, arch, confId) ==
    IF arch[confId].link = NoName THEN << >>
    ELSE << ResolvePageLink(
                ConvertElement([kind |-> "page-link",
                                name |-> arch[confId].link,
                                body |-> NoName]),
                RunTitleMap(run, arch)) >>

\* Step 5: the sorted sibling group of a parent, and the jitter of the
\* generateJitteredKeyBetween call made for each of its pages.
RunGroup(parent, nds) == SortSiblings(GroupOf(parent, nds, 1), nds)

GroupJitters(sibs, jitter) == [k \in DOMAIN sibs |-> jitter[sibs[k]]]

GroupKeysRootOnly(parent, sibs, jitter, nextPosition) ==
    IF sibs = << >> THEN << >>
    ELSE IF parent = NoId
    THEN RootKeys(FirstRootKeyFull(nextPosition, jitter[sibs[1]]),
                  GroupJitters(sibs, jitter))
    ELSE [k \in DOMAIN sibs |-> NullKey]

\* The keys the loops of step 5 give the pages of one sorted group: the
\* root group starts at nextPagePosition's value, every other at null.
GroupKeys(parent, sibs, jitter, nextPosition) ==
    IF sibs = << >> THEN << >>
    ELSE IF parent = NoId
    THEN RootKeys(FirstRootKeyFull(nextPosition, jitter[sibs[1]]),
                  GroupJitters(sibs, jitter))
    ELSE KeysBehind(NullKey, GroupJitters(sibs, jitter))

\* page.position of every page of the run.
RunPositions(nds, jitter, nextPosition) ==
    [c \in RunConfIds |->
        LET sibs == RunGroup(nds[c].parentPageId, nds)
            k == CHOOSE i \in DOMAIN sibs : sibs[i] = c
        IN  GroupKeys(nds[c].parentPageId, sibs, jitter, nextPosition)[k]]

\* The rows one run commits, by page.
RunRows(run, arch, jitter, nextPosition) ==
    LET nds == RunNodes(run, arch)
        pos == RunPositions(nds, jitter, nextPosition)
    IN  [c \in RunConfIds |->
            [id |-> nds[c].id,
             parentPageId |-> nds[c].parentPageId,
             title |-> nds[c].name,
             position |-> pos[c],
             content |-> RunHtml(run, arch, c)]]

\* The same archive imported twice, into the same destination state.
InitTwice ==
    /\ runs \in { [pc |-> "twice", archive |-> a, nextPosition |-> p,
                   rows |-> [r \in RunNumbers |-> << >>]] :
                  a \in RunArchives, p \in NextPositions }
    /\ ord = OrdIdle
    /\ prs = PrsIdle
    /\ lnk = LnkIdle
    /\ batch = BatchIdle
    /\ PipelineIdle

\* One run of processConfluenceImport, from the parse to the commit.
ImportRun(run) ==
    /\ runs.pc = "twice"
    /\ runs.rows[run] = << >>
    /\ \E jitter \in [RunConfIds -> Jitters] :
         runs' = [runs EXCEPT
                    !.rows[run] = RunRows(run, runs.archive, jitter,
                                          runs.nextPosition)]
    /\ UNCHANGED << pipeVars, spaceVars, ord, prs, lnk, batch >>

NextTwice == \E run \in RunNumbers : ImportRun(run)

SpecTwice == InitTwice /\ [][NextTwice]_vars

\* Both runs have committed.
BothCommitted == runs.pc = "twice" /\ \A r \in RunNumbers : runs.rows[r] # << >>

\* The content with every page reference renamed by f.
RenameContent(html, f) ==
    [k \in DOMAIN html |->
        IF html[k].pageId # NoId
        THEN [html[k] EXCEPT !.pageId = f[html[k].pageId]]
        ELSE html[k]]

\* f renames the tree `one` into the tree `two`: titles, parents, contents
\* and the order of siblings by their order keys.
RenamesInto(f, one, two) ==
    /\ \A c \in DOMAIN one :
          \E d \in DOMAIN two :
              /\ two[d].id = f[one[c].id]
              /\ two[d].title = one[c].title
              /\ two[d].parentPageId =
                     (IF one[c].parentPageId = NoId THEN NoId
                      ELSE f[one[c].parentPageId])
              /\ two[d].content = RenameContent(one[c].content, f)
    /\ \A c1, c2 \in DOMAIN one :
          one[c1].parentPageId = one[c2].parentPageId =>
              \A d1, d2 \in DOMAIN two :
                  (two[d1].id = f[one[c1].id] /\ two[d2].id = f[one[c2].id])
                      => (one[c1].position < one[c2].position
                              <=> two[d1].position < two[d2].position)

----------------------------------------------------------------------------
\* Two runs on two different archives, their steps interleaved.

\* The archives of the interleaved runs: the last page is titled A, the
\* others B, and only the first page may link (to A).
TwoRunArchives ==
    { a \in RunArchives :
        \A c \in RunConfIds :
            /\ a[c].title = (IF c = MaxRunPages THEN << UpperA >>
                             ELSE << UpperB >>)
            /\ c > 1 => a[c].link = NoName }

\* The locals of a call that has not started; `overlapped` records that
\* the other run had written rows in its open transaction when this one
\* committed.
RunAtStart ==
    [pc |-> "start", nodes |-> << >>, pageLevel |-> << >>, txOrder |-> << >>,
     idx |-> 1, validPageIds |-> {}, allBacklinks |-> << >>,
     trxPages |-> << >>, outcome |-> "none", overlapped |-> FALSE]

InitTwoRuns ==
    /\ runs \in { [pc |-> "two", archive |-> << a1, a2 >>,
                   run |-> [r \in RunNumbers |-> RunAtStart],
                   dbPages |-> {}, dbBacklinks |-> {}] :
                  a1 \in TwoRunArchives, a2 \in TwoRunArchives }
    /\ runs.archive[1] # runs.archive[2]
    /\ ord = OrdIdle
    /\ prs = PrsIdle
    /\ lnk = LnkIdle
    /\ batch = BatchIdle
    /\ PipelineIdle

\* Steps 1 to 6, calculateLevels and the opening of the transaction.
StartRun(r) ==
    /\ runs.pc = "two"
    /\ runs.run[r].pc = "start"
    /\ LET nds == RunNodes(r, runs.archive[r])
           pl == CalcPageLevel(RunKeys, nds)
       IN  runs' = [runs EXCEPT !.run[r].pc = "tx",
                                !.run[r].nodes = nds,
                                !.run[r].pageLevel = pl,
                                !.run[r].txOrder = TxOrder(RunKeys, pl)]
    /\ UNCHANGED << pipeVars, spaceVars, ord, prs, lnk, batch >>

\* One iteration of the inner loop of the run's transaction.
RunInsertPage(r) ==
    /\ runs.pc = "two"
    /\ runs.run[r].pc = "tx"
    /\ runs.run[r].idx <= Len(runs.run[r].txOrder)
    /\ LET me == runs.run[r]
           confId == me.txOrder[me.idx]
           page == me.nodes[confId]
       IN  runs' = [runs EXCEPT
                      !.run[r].trxPages =
                          Append(me.trxPages,
                                 [id |-> page.id,
                                  parentPageId |-> page.parentPageId]),
                      !.run[r].validPageIds = me.validPageIds \cup {page.id},
                      !.run[r].allBacklinks =
                          me.allBacklinks \o
                              FormatBacklinks(
                                  RunHtml(r, runs.archive[r], confId),
                                  page.id),
                      !.run[r].idx = me.idx + 1]
    /\ UNCHANGED << pipeVars, spaceVars, ord, prs, lnk, batch >>

\* The backlinks are filtered and inserted, the callback returns and the
\* transaction commits.
RunCommits(r) ==
    /\ runs.pc = "two"
    /\ runs.run[r].pc = "tx"
    /\ runs.run[r].idx > Len(runs.run[r].txOrder)
    /\ LET me == runs.run[r]
           other == runs.run[CHOOSE o \in RunNumbers : o # r]
       IN
       runs' = [runs EXCEPT
                  !.dbPages = runs.dbPages \cup SeqToSet(me.trxPages),
                  !.dbBacklinks =
                      runs.dbBacklinks \cup
                          SeqToSet(FilterBacklinks(me.allBacklinks,
                                                   me.validPageIds)),
                  !.run[r].trxPages = << >>,
                  !.run[r].pc = "done",
                  !.run[r].outcome = "committed",
                  !.run[r].overlapped =
                      (other.pc = "tx" /\ other.trxPages # << >>)]
    /\ UNCHANGED << pipeVars, spaceVars, ord, prs, lnk, batch >>

\* A step of the run's transaction throws: its rows are discarded.
RunRollsBack(r) ==
    /\ runs.pc = "two"
    /\ runs.run[r].pc = "tx"
    /\ runs' = [runs EXCEPT !.run[r].trxPages = << >>,
                            !.run[r].pc = "done",
                            !.run[r].outcome = "rolledback"]
    /\ UNCHANGED << pipeVars, spaceVars, ord, prs, lnk, batch >>

NextTwoRuns ==
    \E r \in RunNumbers :
        \/ StartRun(r)
        \/ RunInsertPage(r)
        \/ RunCommits(r)
        \/ RunRollsBack(r)

SpecTwoRuns == InitTwoRuns /\ [][NextTwoRuns]_vars

\* What the run r commits when it executes alone, as the handler computes
\* it from the run's archive: page rows, backlink rows, levels.
AlonePages(r) ==
    LET nds == RunNodes(r, runs.archive[r])
    IN  { [id |-> nds[c].id, parentPageId |-> nds[c].parentPageId] :
            c \in RunConfIds }

AloneBacklinks(r) ==
    UNION { SeqToSet(FilterBacklinks(
                FormatBacklinks(RunHtml(r, runs.archive[r], c), RunId(r, c)),
                IdsOfRun(r))) : c \in RunConfIds }

AloneLevels(r) == CalcPageLevel(RunKeys, RunNodes(r, runs.archive[r]))

\* The rows of the store that carry an id of run r.
StorePagesOf(r) == { row \in runs.dbPages : row.id \in IdsOfRun(r) }

StoreBacklinksOf(r) ==
    { e \in runs.dbBacklinks :
        e.sourcePageId \in IdsOfRun(r) \/ e.targetPageId \in IdsOfRun(r) }

----------------------------------------------------------------------------
\* resolveConfluenceLinks and the values of attachmentPathMap.

\* attachmentPathMap.set(att.fileName, att.href): the value held for a key
\* is the path of the attachment's file in the extracted archive.
PathMapValue(key) == << "attachments", "file" >> \o key

\* The entry of the page's attachmentPathMap a file name matches first.
FirstMatch(fileName) ==
    CHOOSE i \in DOMAIN lnk.pathMap :
        /\ lnk.pathMap[i] = fileName \/ EndsWith(lnk.pathMap[i], fileName)
        /\ \A j \in DOMAIN lnk.pathMap :
               (lnk.pathMap[j] = fileName \/ EndsWith(lnk.pathMap[j], fileName))
                   => i <= j

\* C24: after resolveConfluenceLinks an attachment placeholder whose file
\* name matches an entry of attachmentPathMap (exact name or path suffix)
\* has the entry's resolved path as href or src, and a placeholder that
\* matches no entry is unchanged.
C24_RewrittenToResolvedPath ==
    LinksResolved =>
        \A k \in AttachmentPlaceholders :
            IF AttachmentMatches(lnk.converted[k].target)
            THEN /\ lnk.html[k].scheme = ""
                 /\ lnk.html[k].tag = lnk.converted[k].tag
                 /\ lnk.html[k].target =
                        PathMapValue(
                            lnk.pathMap[FirstMatch(lnk.converted[k].target)])
            ELSE lnk.html[k] = lnk.converted[k]

----------------------------------------------------------------------------
\* The backlink filter and the batch loop (lines 344-363).

\* Most edges in allBacklinks.
MaxEdges == 250

\* The k-th edge formatImportHtml reported: the edges are all different.
Edge(k) == [sourcePageId |-> k, targetPageId |-> k + 1]

\* allBacklinks with n edges, and validPageIds: the ends of all the edges,
\* or all but the page `missing` (0: none is missing), whose row was not
\* inserted.
BatchInputs ==
    { [pc |-> "filter",
       allBacklinks |-> [k \in 1..n |-> Edge(k)],
       validPageIds |-> (1..(n + 1)) \ {missing},
       filtered |-> << >>, i |-> 0, calls |-> << >>] :
      n \in 0..MaxEdges, missing \in {0, 3} }

InitBatches ==
    /\ batch \in BatchInputs
    /\ ord = OrdIdle
    /\ prs = PrsIdle
    /\ lnk = LnkIdle
    /\ runs = RunsIdle
    /\ PipelineIdle

BatchChunkWhole(filtered, i) == filtered

\* filteredBacklinks.slice(i, Math.min(i + BACKLINK_BATCH_SIZE,
\* filteredBacklinks.length))
BatchChunk(filtered, i) ==
    SubSeq(filtered, i + 1, Min(i + BACKLINK_BATCH_SIZE, Len(filtered)))

\* const filteredBacklinks = allBacklinks.filter(...); let i = 0
FilterEdges ==
    /\ batch.pc = "filter"
    /\ batch' = [batch EXCEPT
                   !.pc = "loop",
                   !.filtered = FilterBacklinks(batch.allBacklinks,
                                                batch.validPageIds)]
    /\ UNCHANGED << pipeVars, spaceVars, ord, prs, lnk, runs >>

\* One iteration of the for loop: insertBacklink(backlinkChunk, trx).
InsertBatch ==
    /\ batch.pc = "loop"
    /\ Len(batch.filtered) > 0
    /\ batch.i < Len(batch.filtered)
    /\ batch' = [batch EXCEPT
                   !.calls = Append(batch.calls,
                                    BatchChunk(batch.filtered, batch.i)),
                   !.i = batch.i + BACKLINK_BATCH_SIZE]
    /\ UNCHANGED << pipeVars, spaceVars, ord, prs, lnk, runs >>

\* The list is empty, or i has reached its length.
BatchesDone ==
    /\ batch.pc = "loop"
    /\ ~(Len(batch.filtered) > 0 /\ batch.i < Len(batch.filtered))
    /\ batch' = [batch EXCEPT !.pc = "done"]
    /\ UNCHANGED << pipeVars, spaceVars, ord, prs, lnk, runs >>

NextBatches ==
    \/ FilterEdges
    \/ InsertBatch
    \/ BatchesDone

SpecBatches == InitBatches /\ [][NextBatches]_vars

\* C25: every insertBacklink call gets between 1 and 100 edges; the calls
\* made so far, concatenated in order, are the filtered list up to the
\* loop's position, and once the loop is over the whole filtered list, which
\* is what the transaction of the pipeline writes; an empty list makes no
\* call.
C25_BatchesPartitionFiltered ==
    batch.pc \in {"loop", "done"} =>
        /\ \A c \in DOMAIN batch.calls :
               /\ Len(batch.calls[c]) >= 1
               /\ Len(batch.calls[c]) <= 100
        /\ Flatten(batch.calls) =
               SubSeq(batch.filtered, 1, Min(batch.i, Len(batch.filtered)))
        /\ batch.pc = "done" =>
               /\ Flatten(batch.calls) = batch.filtered
               /\ batch.calls = BacklinkBatches(batch.filtered)
        /\ batch.filtered = << >> => batch.calls = << >>

\* C25 witness: 248 of 250 edges survive the filter and were inserted by
\* three calls of 100, 100 and 48 edges.
C25_Witness ==
    /\ batch.pc = "done"
    /\ Len(batch.allBacklinks) = 250
    /\ Len(batch.filtered) = 248
    /\ Len(batch.calls) = 3
    /\ Len(batch.calls[1]) = 100
    /\ Len(batch.calls[2]) = 100
    /\ Len(batch.calls[3]) = 48
    /\ batch.calls[3][48] = Edge(250)

----------------------------------------------------------------------------
\* C26: every page row inserted with a parentPageId that is not null is
\* inserted after the row of that parent, in the same transaction,
\* whatever the hierarchy of the archive (self-parents and cycles included).
C26_ParentRowInsertedFirst ==
    \A j \in DOMAIN insertLog :
        LET parent == nodes[ConfOf(insertLog[j])].parentPageId IN
        parent # NoId => \E i \in 1..(j - 1) : insertLog[i] = parent

----------------------------------------------------------------------------
\* One run from the order keys to the end of the page loop: steps 5 to 7
\* of processConfluenceImport on the archives of RunArchives, which include
\* self-parents and parent cycles.

InitFiling ==
    /\ runs \in { [pc |-> "keys", archive |-> a, nextPosition |-> p,
                   nodes |-> RunNodes(1, a),
                   position |-> [c \in RunConfIds |-> NullKey],
                   pageLevel |-> << >>, sortedLevels |-> << >>,
                   txOrder |-> << >>, idx |-> 1, trxPages |-> << >>] :
                  a \in RunArchives, p \in NextPositions }
    /\ ord = OrdIdle
    /\ prs = PrsIdle
    /\ lnk = LnkIdle
    /\ batch = BatchIdle
    /\ PipelineIdle

\* Step 5: page.position of every page, undefined (NullKey) until here.
AssignOrderKeys ==
    /\ runs.pc = "keys"
    /\ \E jitter \in [RunConfIds -> Jitters] :
         runs' = [runs EXCEPT
                    !.pc = "levels",
                    !.position = RunPositions(runs.nodes, jitter,
                                              runs.nextPosition)]
    /\ UNCHANGED << pipeVars, spaceVars, ord, prs, lnk, batch >>

\* calculateLevels() and sortedLevels; executeTx opens.
FileByLevel ==
    /\ runs.pc = "levels"
    /\ LET pl == CalcPageLevel(RunKeys, runs.nodes) IN
       runs' = [runs EXCEPT
                  !.pc = "tx",
                  !.pageLevel = pl,
                  !.sortedLevels = SortedLevels(LevelKeys(RunKeys, pl)),
                  !.txOrder = TxOrder(RunKeys, pl)]
    /\ UNCHANGED << pipeVars, spaceVars, ord, prs, lnk, batch >>

\* One iteration of the inner loop: the row is inserted.
InsertFiledPage ==
    /\ runs.pc = "tx"
    /\ runs.idx <= Len(runs.txOrder)
    /\ LET confId == runs.txOrder[runs.idx]
           page == runs.nodes[confId]
       IN
       runs' = [runs EXCEPT
                  !.trxPages = Append(runs.trxPages,
                                      [id |-> page.id,
                                       parentPageId |-> page.parentPageId,
                                       position |-> runs.position[confId]]),
                  !.idx = runs.idx + 1]
    /\ UNCHANGED << pipeVars, spaceVars, ord, prs, lnk, batch >>

\* The loops over the levels are over.
PageLoopEnds ==
    /\ runs.pc = "tx"
    /\ runs.idx > Len(runs.txOrder)
    /\ runs' = [runs EXCEPT !.pc = "done"]
    /\ UNCHANGED << pipeVars, spaceVars, ord, prs, lnk, batch >>

NextFiling ==
    \/ AssignOrderKeys
    \/ FileByLevel
    \/ InsertFiledPage
    \/ PageLoopEnds

SpecFiling == InitFiling /\ [][NextFiling]_vars

\* pagesByLevel.get(level) of the run.
FiledUnder(level) ==
    SeqToSet(PagesByLevel(RunKeys, runs.pageLevel, level))

\* C27: when the transaction opens every node has an order key and is filed
\* under exactly one level of the level index; no row is inserted without
\* order key or twice, and when the page loop is over every node has been
\* inserted exactly once.
C27_FiledOnceWithKey ==
    /\ runs.pc \in {"tx", "done"} =>
           \A c \in RunConfIds :
               /\ runs.position[c] # NullKey
               /\ Cardinality({ l \in SeqToSet(runs.sortedLevels) :
                                  c \in FiledUnder(l) }) = 1
    /\ runs.pc \in {"keys", "levels", "tx", "done"} =>
           /\ \A k \in DOMAIN runs.trxPages :
                  runs.trxPages[k].position # NullKey
           /\ \A j, k \in DOMAIN runs.trxPages :
                  runs.trxPages[j].id = runs.trxPages[k].id => j = k
    /\ runs.pc = "done" =>
           { runs.trxPages[k].id : k \in DOMAIN runs.trxPages } = IdsOfRun(1)

\* C27 witness: the first page is its own parent and the others are its
\* children; the traversal reached none of them, and all of them were
\* inserted with an order key.
C27_Witness ==
    /\ runs.pc = "done"
    /\ \A c \in RunConfIds : runs.archive[c].parent = 1
    /\ runs.pageLevel = << >>
    /\ Len(runs.trxPages) = MaxRunPages
    /\ \A k \in DOMAIN runs.trxPages : runs.trxPages[k].position # NullKey

----------------------------------------------------------------------------
\* calculateLevels, one iteration of its while loop at a time.

InitBfs ==
    /\ runs \in { [pc |-> "seed", archive |-> a, nodes |-> RunNodes(1, a),
                   queue |-> << >>, pageLevel |-> << >>, pushed |-> << >>] :
                  a \in RunArchives }
    /\ ord = OrdIdle
    /\ prs = PrsIdle
    /\ lnk = LnkIdle
    /\ batch = BatchIdle
    /\ PipelineIdle

\* The confIds of the entries of a queue.
ConfIdsOf(queue) == [k \in DOMAIN queue |-> queue[k].confId]

\* The first loop: every node without parent is queued at level 0.
SeedRoots ==
    /\ runs.pc = "seed"
    /\ runs' = [runs EXCEPT
                  !.pc = "loop",
                  !.queue = RootQueue(RunKeys, runs.nodes),
                  !.pageLevel = RootLevels(RunKeys, runs.nodes),
                  !.pushed = ConfIdsOf(RootQueue(RunKeys, runs.nodes))]
    /\ UNCHANGED << pipeVars, spaceVars, ord, prs, lnk, batch >>

ShiftKeepsHead(queue) == queue

\* queue.shift(): the queue without its first entry.
Shift(queue) == Tail(queue)

\* One iteration of while (queue.length > 0): the head is taken off and
\* its children without level are given one and queued.
ScanHead ==
    /\ runs.pc = "loop"
    /\ runs.queue # << >>
    /\ LET head == Head(runs.queue)
           rest == Shift(runs.queue)
           st == ScanChildren(1, RunKeys, runs.nodes, head.confId,
                              head.level,
                              [queue |-> rest, pageLevel |-> runs.pageLevel])
       IN  runs' = [runs EXCEPT
                      !.queue = st.queue,
                      !.pageLevel = st.pageLevel,
                      !.pushed =
                          runs.pushed \o
                              ConfIdsOf(SubSeq(st.queue, Len(rest) + 1,
                                               Len(st.queue)))]
    /\ UNCHANGED << pipeVars, spaceVars, ord, prs, lnk, batch >>

\* The queue is empty: the while loop is left.
BfsEnds ==
    /\ runs.pc = "loop"
    /\ runs.queue = << >>
    /\ runs' = [runs EXCEPT !.pc = "done"]
    /\ UNCHANGED << pipeVars, spaceVars, ord, prs, lnk, batch >>

NextBfs ==
    \/ SeedRoots
    \/ ScanHead
    \/ BfsEnds

\* The traversal is synchronous code: it takes its next step whenever it
\* has one.
SpecBfs == InitBfs /\ [][NextBfs]_vars /\ WF_vars(NextBfs)

\* No node has been pushed into the queue twice.
EnqueuedAtMostOnce ==
    runs.pc \in {"seed", "loop", "done"} =>
        \A j, k \in DOMAIN runs.pushed :
            runs.pushed[j] = runs.pushed[k] => j = k

\* The while loop was left, with the levels the pipeline's calculateLevels
\* computes.
BfsDone ==
    /\ runs.pc = "done"
    /\ runs.pageLevel = CalcPageLevel(RunKeys, runs.nodes)

\* C28: for every parent graph of the archives, self-parents and cycles
\* included, no node is ever pushed into the queue twice and the while loop
\* of calculateLevels ends.
C28_BfsTerminates == []EnqueuedAtMostOnce /\ <>BfsDone

\* C28 witness: the traversal ended for an archive whose last page is its
\* own parent and whose first page is a root; the root was queued, the
\* self-parent never.
C28_Witness ==
    /\ runs.pc = "done"
    /\ DOMAIN runs.archive = RunConfIds
    /\ runs.archive[1].parent = NoId
    /\ runs.archive[MaxRunPages].parent = MaxRunPages
    /\ 1 \in SeqToSet(runs.pushed)
    /\ MaxRunPages \notin SeqToSet(runs.pushed)
    /\ runs.queue = << >>

----------------------------------------------------------------------------
\* Two space imports of archives with the same space key: the slug of the
\* space each creates (generateUniqueSpaceSlug, then createSpace).

\* Most numbered slugs the workspace has before the imports.
MaxTaken == 2

\* A slug is the number behind the base slug: 0 is baseSlug itself, k is
\* `${baseSlug}-${k}`; TimestampSlug is `${baseSlug}-${Date.now()}`.
BaseSlug == 0

TimestampSlug == -1

maxAttempts == 100

\* The spaces of the workspace before the imports: space rows with the ids
\* 11, 12, ... and slugs of the base slug's family.
ExistingSpaces ==
    { { [id |-> 11 + k, slug |-> k] : k \in S } : S \in SUBSET (0..MaxTaken) }

\* slugExists(slug, workspaceId): a space row of the workspace has the slug.
slugExists(spaces, slug) == \E row \in spaces : row.slug = slug

InitSlug ==
    /\ runs \in { [pc |-> "slug", spaces |-> s,
                   run |-> [r \in RunNumbers |->
                               [pc |-> "check", suffix |-> 0,
                                slug |-> BaseSlug]]] :
                  s \in ExistingSpaces }
    /\ ord = OrdIdle
    /\ prs = PrsIdle
    /\ lnk = LnkIdle
    /\ batch = BatchIdle
    /\ PipelineIdle

\* One iteration of the while loop of generateUniqueSpaceSlug: the query,
\* then return slug, or the next suffix (the timestamp slug is returned
\* once maxAttempts suffixes are used up).
CheckSlug(r) ==
    /\ runs.pc = "slug"
    /\ runs.run[r].pc = "check"
    /\ LET me == runs.run[r] IN
       IF ~slugExists(runs.spaces, me.slug)
       THEN runs' = [runs EXCEPT !.run[r].pc = "create"]
       ELSE IF me.suffix + 1 < maxAttempts
       THEN runs' = [runs EXCEPT !.run[r].suffix = me.suffix + 1,
                                 !.run[r].slug = me.suffix + 1]
       ELSE runs' = [runs EXCEPT !.run[r].suffix = me.suffix + 1,
                                 !.run[r].slug = TimestampSlug,
                                 !.run[r].pc = "create"]
    /\ UNCHANGED << pipeVars, spaceVars, ord, prs, lnk, batch >>

\* this.spaceService.createSpace(user, workspaceId, { slug: uniqueSlug }).
CreateSpaceWithSlug(r) ==
    /\ runs.pc = "slug"
    /\ runs.run[r].pc = "create"
    /\ runs' = [runs EXCEPT
                  !.spaces = runs.spaces \cup
                                 { [id |-> r, slug |-> runs.run[r].slug] },
                  !.run[r].pc = "done"]
    /\ UNCHANGED << pipeVars, spaceVars, ord, prs, lnk, batch >>

NextSlug ==
    \E r \in RunNumbers :
        \/ CheckSlug(r)
        \/ CreateSpaceWithSlug(r)

SpecSlug == InitSlug /\ [][NextSlug]_vars

\* C29: no two spaces of the workspace have the same slug, also when two
\* space imports of archives with the same space key run concurrently; and
\* the slug a run creates its space with is the first unused of base,
\* base-1, base-2, ...: every slug in front of it is in use.
C29_SlugUnusedAtCreation ==
    runs.pc = "slug" =>
        /\ \A x, y \in runs.spaces : x.slug = y.slug => x.id = y.id
        /\ \A r \in RunNumbers :
               runs.run[r].pc \in {"create", "done"} =>
                   \A k \in 0..(runs.run[r].slug - 1) :
                       slugExists(runs.spaces, k)

\* ---------------------------------------------------------------------
\* convertConfluenceContent on nested macros (SpecMacros, on lnk).
\*
\* A document is a sequence of elements, an element a record of its kind
\* (the ac:name of a structured macro, or the element's name) and its body
\* (the elements of its ac:rich-text-body, or its child elements).  Every
\* pass selects its elements once, `$(selector).each(...)`, and replaces
\* each with an element built from `load($body.html())`: a parse of the
\* serialised body, whose elements are new and are not members of the
\* selection.  The selected elements inside the body leave the document
\* with the replaced macro; replacing them later changes only the detached
\* subtree.  So a pass rewrites the outermost elements it selects and
\* copies what is in their bodies.

MaxNest == 3

MacroKinds ==
    { "code", "info", "warning", "note", "tip", "error", "panel", "expand",
      "toc", "toc-zone", "status", "noformat", "layout" }

InputKinds == MacroKinds \cup { "link", "p" }

\* Object.entries(calloutTypes): the macro names in insertion order.
calloutTypes == << "info", "warning", "note", "tip", "error" >>

Element(kind, body) == [kind |-> kind, body |-> body]

\* The document in which each element of names is the only element in the
\* body of the one before.  A layout is ac:layout > ac:layout-section >
\* ac:layout-cell > content.
RECURSIVE Nest(_)
Nest(names) ==
    IF names = << >> THEN << >>
    ELSE IF Head(names) = "layout"
    THEN << Element("layout",
               << Element("layout-section",
                     << Element("layout-cell", Nest(Tail(names))) >>) >>) >>
    ELSE << Element(Head(names), Nest(Tail(names))) >>

NestedNames == UNION { [1..n -> InputKinds] : n \in 0..MaxNest }

\* $cells.each: the contents of every ac:layout-cell under a section, in
\* document order.
RECURSIVE CellContents(_)
CellContents(doc) ==
    IF doc = << >> THEN << >>
    ELSE LET el == Head(doc) IN
         (IF el.kind = "layout-cell" THEN el.body ELSE << >>)
             \o CellContents(el.body) \o CellContents(Tail(doc))

\* What $macro.replaceWith(...) puts in the place of a selected element.
Replacement(el) ==
    CASE el.kind \in { "code", "noformat" } -> << Element("pre", << >>) >>
      [] el.kind \in { "info", "warning", "note", "tip", "error", "panel" } ->
             << Element("callout", el.body) >>
      [] el.kind = "expand" -> << Element("details", el.body) >>
      [] el.kind = "toc" -> << >>
      [] el.kind = "toc-zone" -> el.body
      [] el.kind = "status" -> << Element("span", << >>) >>
      [] el.kind = "link" -> << Element("a", << >>) >>
      [] el.kind = "layout-section" -> CellContents(el.body)
      [] el.kind = "layout" -> el.body
      [] OTHER -> << el >>

\* $(selector).each(el => $(el).replaceWith(...)) for the elements of one
\* kind.
RECURSIVE ReplaceEach(_, _)
ReplaceEach(doc, kind) ==
    IF doc = << >> THEN << >>
    ELSE LET el == Head(doc) IN
         (IF el.kind = kind
          THEN Replacement(el)
          ELSE << [el EXCEPT !.body = ReplaceEach(el.body, kind)] >>)
             \o ReplaceEach(Tail(doc), kind)

RECURSIVE ReplaceCallouts(_, _)
ReplaceCallouts(doc, i) ==
    IF i > Len(calloutTypes) THEN doc
    ELSE ReplaceCallouts(ReplaceEach(doc, calloutTypes[i]), i + 1)

RECURSIVE KindsIn(_)
KindsIn(doc) ==
    IF doc = << >> THEN { }
    ELSE { Head(doc).kind } \cup KindsIn(Head(doc).body)
             \cup KindsIn(Tail(doc))

InitMacros ==
    /\ lnk \in { [pc |-> "content", content |-> Nest(names),
                  doc |-> << >>, result |-> << >>] : names \in NestedNames }
    /\ ord = OrdIdle
    /\ prs = PrsIdle
    /\ runs = RunsIdle
    /\ batch = BatchIdle
    /\ PipelineIdle

MacroStep(from, to, doc) ==
    /\ lnk.pc = from
    /\ lnk' = [lnk EXCEPT !.pc = to, !.doc = doc]
    /\ UNCHANGED << pipeVars, spaceVars, ord, prs, runs, batch >>

\* if (!content || !content.trim()) return ''.
convertEmptyContent ==
    /\ lnk.pc = "content"
    /\ lnk.content = << >>
    /\ lnk' = [lnk EXCEPT !.pc = "returned"]
    /\ UNCHANGED << pipeVars, spaceVars, ord, prs, runs, batch >>

loadContent ==
    /\ lnk.content # << >>
    /\ MacroStep("content", "code", lnk.content)

processCodeMacros == MacroStep("code", "callout", ReplaceEach(lnk.doc, "code"))

processCalloutMacros ==
    MacroStep("callout", "expand", ReplaceCallouts(lnk.doc, 1))

processExpandMacros ==
    MacroStep("expand", "toc", ReplaceEach(lnk.doc, "expand"))

processTableOfContents ==
    MacroStep("toc", "links",
              ReplaceEach(ReplaceEach(lnk.doc, "toc"), "toc-zone"))

\* processPageLinks; the four passes after it select ac:image, ac:link
\* with an attachment, ac:emoticon and ac:task-list, none of which is in
\* these documents.
processPageLinks == MacroStep("links", "status", ReplaceEach(lnk.doc, "link"))

processStatusMacros ==
    MacroStep("status", "panel", ReplaceEach(lnk.doc, "status"))

processPanelMacros ==
    MacroStep("panel", "noformat", ReplaceEach(lnk.doc, "panel"))

processNoFormatMacros ==
    MacroStep("noformat", "layout", ReplaceEach(lnk.doc, "noformat"))

processLayoutMacros ==
    MacroStep("layout", "html",
              ReplaceEach(ReplaceEach(lnk.doc, "layout-section"), "layout"))

\* return $('div').first().html() || ''.
returnResult ==
    /\ lnk.pc = "html"
    /\ lnk' = [lnk EXCEPT !.pc = "returned", !.result = lnk.doc]
    /\ UNCHANGED << pipeVars, spaceVars, ord, prs, runs, batch >>

NextMacros ==
    \/ convertEmptyContent
    \/ loadContent
    \/ processCodeMacros
    \/ processCalloutMacros
    \/ processExpandMacros
    \/ processTableOfContents
    \/ processPageLinks
    \/ processStatusMacros
    \/ processPanelMacros
    \/ processNoFormatMacros
    \/ processLayoutMacros
    \/ returnResult

SpecMacros == InitMacros /\ [][NextMacros]_vars

RewrittenKinds == MacroKinds \cup { "layout-section", "layout-cell" }

\* C30: what convertConfluenceContent returns contains no macro of a kind
\* the transformer rewrites, whatever the nesting of the macros of the
\* content.
C30_NoRewrittenMacroLeft ==
    lnk.pc = "returned" => KindsIn(lnk.result) \cap RewrittenKinds = { }

====
